---- MODULE Spec2Model ----
(***************************************************************************)
(* Model of the agents4impact agent runtime: the tool-invocation protocol  *)
(* of BaseAgent.process_request, the per-agent tool executors and the      *)
(* Orchestrator's keyword router.                                          *)
(*                                                                         *)
(* Text is a sequence of tokens.  A token is an indivisible piece of a     *)
(* Python string: a marker, a blank, a newline, a word, a JSON punctuation *)
(* sign.  A dict is a function from its keys to its values.                *)
(***************************************************************************)
EXTENDS Integers, Sequences, FiniteSets, TLC

\* ------------------------------------------------------------------------
\* Bounds of the model
\* ------------------------------------------------------------------------
MaxLines == 2
MaxEvents == 15
MaxWords == 2
MaxCreated == 3

\* ------------------------------------------------------------------------
\* Program constants
\* ------------------------------------------------------------------------
EventCardLimit == 10

\* ------------------------------------------------------------------------
\* Strings as token sequences
\* ------------------------------------------------------------------------
NL == "\n"
SP == " "
USE_TOOL == "USE_TOOL:"
PARAMETERS == "PARAMETERS:"

IsSpace(t) == t \in {SP, NL}

\* marker in text
Contains(text, tok) == \E i \in 1..Len(text) : text[i] = tok

\* line.startswith(marker)
StartsWith(line, tok) == Len(line) > 0 /\ line[1] = tok

\* line.replace(marker, ""): every occurrence is removed
RemoveAll(line, tok) == SelectSeq(line, LAMBDA t : t # tok)

RECURSIVE LStrip(_)
LStrip(s) == IF s # <<>> /\ IsSpace(Head(s)) THEN LStrip(Tail(s)) ELSE s

RECURSIVE RStrip(_)
RStrip(s) ==
    IF s # <<>> /\ IsSpace(s[Len(s)]) THEN RStrip(SubSeq(s, 1, Len(s) - 1)) ELSE s

\* str.strip()
Strip(s) == RStrip(LStrip(s))

\* str.split('\n'): the pieces between newlines, empty pieces included
RECURSIVE SplitLines(_)
SplitLines(text) ==
    IF ~Contains(text, NL) THEN <<text>>
    ELSE LET i == CHOOSE k \in 1..Len(text) :
                      text[k] = NL /\ \A j \in 1..(k - 1) : text[j] # NL
         IN  <<SubSeq(text, 1, i - 1)>> \o SplitLines(SubSeq(text, i + 1, Len(text)))

\* "\n".join(lines)
RECURSIVE JoinLines(_)
JoinLines(lines) ==
    IF lines = <<>> THEN <<>>
    ELSE IF Len(lines) = 1 THEN lines[1]
    ELSE lines[1] \o <<NL>> \o JoinLines(Tail(lines))

\* ------------------------------------------------------------------------
\* json.loads on the text after PARAMETERS:
\* ------------------------------------------------------------------------
JsonPunct == {"{", "}", ":", ","}
IsJsonString(t) == t \notin JsonPunct /\ ~IsSpace(t) /\ t \notin {USE_TOOL, PARAMETERS}

\* members of an object: k : v , k : v ...
WellFormedMembers(inner) ==
    /\ Len(inner) % 4 = 3
    /\ \A i \in 1..Len(inner) :
          CASE i % 4 = 1 -> IsJsonString(inner[i])
            [] i % 4 = 2 -> inner[i] = ":"
            [] i % 4 = 3 -> IsJsonString(inner[i])
            [] OTHER     -> inner[i] = ","

\* a later duplicate of a key replaces the earlier one
MembersToDict(inner) ==
    LET n == (Len(inner) + 1) \div 4
        keys == {inner[4 * (i - 1) + 1] : i \in 1..n}
        last(k) == CHOOSE i \in 1..n :
                      /\ inner[4 * (i - 1) + 1] = k
                      /\ \A j \in (i + 1)..n : inner[4 * (j - 1) + 1] # k
    IN  [k \in keys |-> inner[4 * (last(k) - 1) + 3]]

\* ok = FALSE stands for json.JSONDecodeError
JsonLoads(str) ==
    LET toks == SelectSeq(str, LAMBDA t : ~IsSpace(t))
        inner == SubSeq(toks, 2, Len(toks) - 1)
    IN  IF Len(toks) >= 2 /\ toks[1] = "{" /\ toks[Len(toks)] = "}"
           /\ (inner = <<>> \/ WellFormedMembers(inner))
        THEN [ok |-> TRUE, value |-> IF inner = <<>> THEN <<>> ELSE MembersToDict(inner)]
        ELSE [ok |-> FALSE, value |-> <<>>]

\* ------------------------------------------------------------------------
\* The parsing loop of process_request
\* ------------------------------------------------------------------------
\* tool_name None and tool_name "" are both the empty sequence: the code
\* only tests the truth value of tool_name.
NoTool == <<>>

\* variant: text that does not parse is handed on as a raw parameter
ParseParametersKeepRaw(line) ==
    LET params_str == Strip(RemoveAll(line, PARAMETERS))
        loaded == JsonLoads(params_str)
    IN  IF loaded.ok THEN loaded.value ELSE [raw |-> "unparsed"]

ParseParameters(line) ==
    LET params_str == Strip(RemoveAll(line, PARAMETERS))
        loaded == JsonLoads(params_str)
    IN  IF loaded.ok THEN loaded.value ELSE <<>>

\* variant: the tool name is not stripped
ParseLineNoStrip(acc, line) ==
    IF StartsWith(line, USE_TOOL)
    THEN [acc EXCEPT !.tool_name = RemoveAll(line, USE_TOOL)]
    ELSE IF StartsWith(line, PARAMETERS)
    THEN [acc EXCEPT !.parameters = ParseParameters(line)]
    ELSE acc

\* one iteration of "for line in lines" on the pair (tool_name, parameters)
ParseLine(acc, line) ==
    IF StartsWith(line, USE_TOOL)
    THEN [acc EXCEPT !.tool_name = Strip(RemoveAll(line, USE_TOOL))]
    ELSE IF StartsWith(line, PARAMETERS)
    THEN [acc EXCEPT !.parameters = ParseParameters(line)]
    ELSE acc

RECURSIVE ParseLoop(_, _)
ParseLoop(acc, lines) ==
    IF lines = <<>> THEN acc
    ELSE ParseLoop(ParseLine(acc, Head(lines)), Tail(lines))

ParseToolCall(response_text) ==
    ParseLoop([tool_name |-> NoTool, parameters |-> <<>>],
              SplitLines(Strip(response_text)))

\* ------------------------------------------------------------------------
\* Tool results and exceptions
\* ------------------------------------------------------------------------
\* An executor step either returns a dict or raises an exception whose
\* str() is the token sequence exc.
Return(v) == [raised |-> FALSE, exc |-> <<>>, value |-> v]
Raise(msg) == [raised |-> TRUE, exc |-> msg, value |-> <<>>]

\* str(KeyError(k))
KeyError(k) == Raise(<<"'", k, "'">>)

\* dict.get(k, default)
Get(d, k, default) == IF k \in DOMAIN d THEN d[k] ELSE default

\* truth value of tool_result.get("success"): a missing key gives None
Truthy(d, k) == k \in DOMAIN d /\ d[k] = TRUE

\* keys whose values are booleans, lists of events, nested dicts; the value
\* of every other key is a string (a token sequence)
BoolKeys == {"success", "requiresPayment"}
ListKeys == {"events", "agents"}
DictKeys == {"paymentIntent", "blockchain"}

\* order in which json.dumps meets the keys of the dicts of this program
KeyOrder ==
    <<"success", "error", "result", "message", "agent", "response", "agents",
      "key", "address", "location", "formatted_address", "origin", "destination",
      "origins", "destinations", "mode", "routes", "matrix", "place_type",
      "radius", "places", "url", "center", "zoom", "size", "markers", "note",
      "datasets", "dataset_id", "table_id", "tables", "schema", "num_rows",
      "size_bytes", "query", "total_rows", "rows_returned", "rows",
      "bytes_processed", "bytes_billed",
      "events", "event", "venues", "tickets", "status", "requiresPayment",
      "paymentIntent", "id", "amount", "blockchain", "paymentAddress",
      "network", "chainId", "expiresAt", "transactionHash", "explorerUrl",
      "balanceUSDC", "balanceETH", "usdcContract",
      "name", "date", "time", "venue", "priceUSD", "availableTickets",
      "description">>

RECURSIVE DumpList(_, _)
RECURSIVE DumpKeys(_, _)
\* json.dumps(d, indent=2)
JsonDumps(d) == <<"{">> \o DumpKeys(d, 1) \o <<"}">>

DumpList(l, i) ==
    IF i > Len(l) THEN <<>>
    ELSE JsonDumps(l[i]) \o <<",">> \o DumpList(l, i + 1)

DumpKeys(d, i) ==
    IF i > Len(KeyOrder) THEN <<>>
    ELSE LET k == KeyOrder[i]
         IN  (IF k \notin DOMAIN d THEN <<>>
              ELSE <<k, ":">> \o
                   (IF k \in BoolKeys THEN <<IF d[k] THEN "true" ELSE "false">>
                    ELSE IF k \in ListKeys THEN <<"[">> \o DumpList(d[k], 1) \o <<"]">>
                    ELSE IF k \in DictKeys THEN JsonDumps(d[k])
                    ELSE d[k]) \o <<",">>)
             \o DumpKeys(d, i + 1)

\* ------------------------------------------------------------------------
\* Formatting of a tool result (the tail of process_request)
\* ------------------------------------------------------------------------
\* event.get(k) of a missing key prints None
EventField(event, k) == Get(event, k, <<"None">>)

EventCard(event) ==
    <<"[ticket] **">> \o EventField(event, "name") \o <<"**", NL>>
    \o <<"[date] ">> \o EventField(event, "date") \o <<" at ">> \o EventField(event, "time") \o <<NL>>
    \o <<"[venue] ">> \o EventField(event, "venue") \o <<NL>>
    \o <<"[price] $">> \o EventField(event, "priceUSD") \o <<" USDC", NL>>
    \o <<"[left] ">> \o EventField(event, "availableTickets") \o <<" tickets available", NL>>
    \o <<"[info] ">> \o EventField(event, "description")

\* variant: no limit
FirstEventsUncapped(events) == events

\* events[:10]
FirstEvents(events) ==
    SubSeq(events, 1, IF Len(events) < EventCardLimit THEN Len(events) ELSE EventCardLimit)

\* "\n\n".join(cards)
RECURSIVE JoinCards(_)
JoinCards(cards) ==
    IF cards = <<>> THEN <<>>
    ELSE IF Len(cards) = 1 THEN cards[1]
    ELSE cards[1] \o <<NL, NL>> \o JoinCards(Tail(cards))

EventCards(events) == [i \in 1..Len(FirstEvents(events)) |-> EventCard(events[i])]

EventsHeader == <<"Here are the available events:", NL, NL>>

\* Every executor of the model returns a dict, so the isinstance(dict) test
\* holds; the value under "result" is a string whenever the key is present.
FormatResult(tool_result) ==
    IF Truthy(tool_result, "success")
    THEN IF "result" \in DOMAIN tool_result
         THEN tool_result["result"]
         ELSE IF "events" \in DOMAIN tool_result
         THEN EventsHeader \o JoinCards(EventCards(tool_result["events"]))
         ELSE JsonDumps(tool_result)
    ELSE <<"Error: ">> \o Get(tool_result, "error", <<"Unknown error">>)

\* ------------------------------------------------------------------------
\* try: <body> except Exception as e: return {"error": str(e)}
\* ------------------------------------------------------------------------
\* variant: no except clause
CatchAllMissing(outcome) == outcome

CatchAll(outcome) ==
    IF outcome.raised THEN Return([error |-> outcome.exc]) ELSE outcome

UnknownTool(tool_name) == [error |-> <<"Unknown tool: ">> \o tool_name]

\* ------------------------------------------------------------------------
\* MapsAgent
\* ------------------------------------------------------------------------
MapsTools ==
    <<"geocode", "reverse_geocode", "get_directions", "calculate_distance",
      "find_nearby_places", "generate_static_map">>

MockNote == <<"This is a mock implementation.">>

\* the maps api key of the deployment, "" when MAPS_API_KEY is not set
MapsApiKeys == {"", "mapkey"}

MapsDispatch(tool_name, parameters, api_key) ==
    LET p == parameters IN
    IF tool_name = <<"geocode">> THEN
        IF "address" \notin DOMAIN p THEN KeyError("address")
        ELSE Return([success |-> TRUE, address |-> <<p["address"]>>,
                     location |-> <<"37.7749", ",", "-122.4194">>,
                     formatted_address |-> <<p["address"], " (geocoded)">>,
                     note |-> MockNote])
    ELSE IF tool_name = <<"reverse_geocode">> THEN
        IF "latitude" \notin DOMAIN p THEN KeyError("latitude")
        ELSE IF "longitude" \notin DOMAIN p THEN KeyError("longitude")
        ELSE Return([success |-> TRUE,
                     location |-> <<p["latitude"], ",", p["longitude"]>>,
                     formatted_address |->
                         <<"Address at (", p["latitude"], ", ", p["longitude"], ")">>,
                     note |-> MockNote])
    ELSE IF tool_name = <<"get_directions">> THEN
        IF "origin" \notin DOMAIN p THEN KeyError("origin")
        ELSE IF "destination" \notin DOMAIN p THEN KeyError("destination")
        ELSE Return([success |-> TRUE, origin |-> <<p["origin"]>>,
                     destination |-> <<p["destination"]>>,
                     mode |-> <<Get(p, "mode", "driving")>>,
                     routes |-> <<"Route from ", p["origin"], " to ", p["destination"]>>,
                     note |-> MockNote])
    ELSE IF tool_name = <<"calculate_distance">> THEN
        IF "origins" \notin DOMAIN p THEN KeyError("origins")
        ELSE IF "destinations" \notin DOMAIN p THEN KeyError("destinations")
        ELSE Return([success |-> TRUE, origins |-> <<p["origins"]>>,
                     destinations |-> <<p["destinations"]>>,
                     mode |-> <<Get(p, "mode", "driving")>>,
                     matrix |-> <<p["origins"], "x", p["destinations"]>>,
                     note |-> MockNote])
    ELSE IF tool_name = <<"find_nearby_places">> THEN
        IF "location" \notin DOMAIN p THEN KeyError("location")
        ELSE Return([success |-> TRUE, location |-> <<p["location"]>>,
                     place_type |-> <<Get(p, "place_type", "null")>>,
                     radius |-> <<Get(p, "radius", "1000")>>,
                     places |-> <<"Example Place 1", ",", "Example Place 2">>,
                     note |-> MockNote])
    ELSE IF tool_name = <<"generate_static_map">> THEN
        IF "center" \notin DOMAIN p THEN KeyError("center")
        ELSE LET zoom == Get(p, "zoom", "13")
                 size == Get(p, "size", "600x400")
                 markers == IF "markers" \in DOMAIN p THEN <<p["markers"]>> ELSE <<>>
                 url == <<"https://maps.googleapis.com/maps/api/staticmap",
                          "?center=", p["center"], "&zoom=", zoom, "&size=", size>>
                        \o (IF markers # <<>> THEN <<"&markers=">> \o markers ELSE <<>>)
                        \o (IF api_key # "" THEN <<"&key=", api_key>> ELSE <<>>)
             IN  Return([success |-> TRUE, url |-> url, center |-> <<p["center"]>>,
                         zoom |-> <<zoom>>, size |-> <<size>>, markers |-> markers])
    ELSE Return(UnknownTool(tool_name))

MapsExecuteTool(tool_name, parameters, api_key) ==
    CatchAll(MapsDispatch(tool_name, parameters, api_key))

\* ------------------------------------------------------------------------
\* BigQueryAgent
\* ------------------------------------------------------------------------
BigQueryTools == <<"list_datasets", "list_tables", "get_table_schema", "execute_query">>

\* self.client: BaseAgent.__init__ stores the model client, then
\* BigQueryAgent.__init__ stores the BigQuery client, or None when its
\* construction fails.
GenaiClient == "genai"
BigQueryClient == "bigquery"
NoClient == "none"

\* what the BigQuery service does with one call
BigQueryOutcomes == {"ok", "fault"}
BigQueryFault == Raise(<<"BigQuery request failed">>)

BigQueryDispatch(tool_name, parameters, remote) ==
    LET p == parameters IN
    IF tool_name = <<"list_datasets">> THEN
        IF remote = "fault" THEN BigQueryFault
        ELSE Return([datasets |-> <<"ds1", ",", "ds2">>])
    ELSE IF tool_name = <<"list_tables">> THEN
        IF "dataset_id" \notin DOMAIN p THEN KeyError("dataset_id")
        ELSE IF remote = "fault" THEN BigQueryFault
        ELSE Return([dataset_id |-> <<p["dataset_id"]>>, tables |-> <<"t1", ",", "t2">>])
    ELSE IF tool_name = <<"get_table_schema">> THEN
        IF "dataset_id" \notin DOMAIN p THEN KeyError("dataset_id")
        ELSE IF "table_id" \notin DOMAIN p THEN KeyError("table_id")
        ELSE IF remote = "fault" THEN BigQueryFault
        ELSE Return([dataset_id |-> <<p["dataset_id"]>>, table_id |-> <<p["table_id"]>>,
                     schema |-> <<"f1", ",", "f2">>, num_rows |-> <<"2">>,
                     size_bytes |-> <<"64">>])
    ELSE IF tool_name = <<"execute_query">> THEN
        IF "query" \notin DOMAIN p THEN KeyError("query")
        ELSE IF remote = "fault" THEN BigQueryFault
        ELSE Return([query |-> <<p["query"]>>, total_rows |-> <<"2">>,
                     rows_returned |-> <<"2">>,
                     rows |-> <<"r1", ",", "r2">>,
                     bytes_processed |-> <<"64">>, bytes_billed |-> <<"64">>])
    ELSE Return(UnknownTool(tool_name))

\* outcome of execute_tool and the client it leaves in self.client;
\* init_ok: whether bigquery.Client(...) can be constructed now
BigQueryExecuteTool(tool_name, parameters, client, init_ok, remote) ==
    IF client = NoClient /\ ~init_ok
    THEN [outcome |-> Return([error |-> <<"BigQuery authentication failed: ">>
                                         \o <<"no credentials">>
                                         \o <<". Please run: gcloud auth application-default login">>]),
          client |-> NoClient]
    ELSE [outcome |-> CatchAll(BigQueryDispatch(tool_name, parameters, remote)),
          client |-> BigQueryClient]

\* ------------------------------------------------------------------------
\* Characters of the tokens that the code inspects character by character
\* ------------------------------------------------------------------------
Chars(t) ==
    CASE t = "ticket" -> <<"t", "i", "c", "k", "e", "t">>
      [] t = "event" -> <<"e", "v", "e", "n", "t">>
      [] t = "concert" -> <<"c", "o", "n", "c", "e", "r", "t">>
      [] t = "show" -> <<"s", "h", "o", "w">>
      [] t = "venue" -> <<"v", "e", "n", "u", "e">>
      [] t = "buy" -> <<"b", "u", "y">>
      [] t = "purchase" -> <<"p", "u", "r", "c", "h", "a", "s", "e">>
      [] t = "available" -> <<"a", "v", "a", "i", "l", "a", "b", "l", "e">>
      [] t = "festival" -> <<"f", "e", "s", "t", "i", "v", "a", "l">>
      [] t = "performance" -> <<"p", "e", "r", "f", "o", "r", "m", "a", "n", "c", "e">>
      [] t = "payment" -> <<"p", "a", "y", "m", "e", "n", "t">>
      [] t = "pay" -> <<"p", "a", "y">>
      [] t = "send" -> <<"s", "e", "n", "d">>
      [] t = "usdc" -> <<"u", "s", "d", "c">>
      [] t = "balance" -> <<"b", "a", "l", "a", "n", "c", "e">>
      [] t = "wallet" -> <<"w", "a", "l", "l", "e", "t">>
      [] t = "complete" -> <<"c", "o", "m", "p", "l", "e", "t", "e">>
      [] t = "transaction" -> <<"t", "r", "a", "n", "s", "a", "c", "t", "i", "o", "n">>
      [] t = "address" -> <<"a", "d", "d", "r", "e", "s", "s">>
      [] t = "fund" -> <<"f", "u", "n", "d">>
      [] t = "query" -> <<"q", "u", "e", "r", "y">>
      [] t = "data" -> <<"d", "a", "t", "a">>
      [] t = "bigquery" -> <<"b", "i", "g", "q", "u", "e", "r", "y">>
      [] t = "sql" -> <<"s", "q", "l">>
      [] t = "database" -> <<"d", "a", "t", "a", "b", "a", "s", "e">>
      [] t = "table" -> <<"t", "a", "b", "l", "e">>
      [] t = "analyze" -> <<"a", "n", "a", "l", "y", "z", "e">>
      [] t = "map" -> <<"m", "a", "p">>
      [] t = "location" -> <<"l", "o", "c", "a", "t", "i", "o", "n">>
      [] t = "directions" -> <<"d", "i", "r", "e", "c", "t", "i", "o", "n", "s">>
      [] t = "geocode" -> <<"g", "e", "o", "c", "o", "d", "e">>
      [] t = "navigation" -> <<"n", "a", "v", "i", "g", "a", "t", "i", "o", "n">>
      [] t = "route" -> <<"r", "o", "u", "t", "e">>
      [] t = "Buy" -> <<"B", "u", "y">>
      [] t = "DATA" -> <<"D", "A", "T", "A">>
      [] t = "Map" -> <<"M", "a", "p">>
      [] t = "hello" -> <<"h", "e", "l", "l", "o">>
      [] t = "Database" -> <<"D", "a", "t", "a", "b", "a", "s", "e">>
      [] t = "Showcase" -> <<"S", "h", "o", "w", "c", "a", "s", "e">>
      [] t = "Jazz Might" -> <<"J", "a", "z", "z", " ", "M", "i", "g", "h", "t">>
      [] t = "Jazz Night Live" -> <<"J", "a", "z", "z", " ", "N", "i", "g", "h", "t", " ", "L", "i", "v", "e">>
      [] t = "Pop Gala" -> <<"P", "o", "p", " ", "G", "a", "l", "a">>
      [] t = "Jazz Night" -> <<"J", "a", "z", "z", " ", "N", "i", "g", "h", "t">>
      [] t = "jazz might" -> <<"j", "a", "z", "z", " ", "m", "i", "g", "h", "t">>
      [] t = "Jazz Fight" -> <<"J", "a", "z", "z", " ", "F", "i", "g", "h", "t">>
      [] t = "Jazz Mxxxt" -> <<"J", "a", "z", "z", " ", "M", "x", "x", "x", "t">>
      [] t = "Opera" -> <<"O", "p", "e", "r", "a">>
      [] t = "see Pop Gala" -> <<"s", "e", "e", " ", "P", "o", "p", " ", "G", "a", "l", "a">>
      [] t = "event-1" -> <<"e", "v", "e", "n", "t", "-", "1">>
      [] t = "event-2" -> <<"e", "v", "e", "n", "t", "-", "2">>
      [] t = "event-3" -> <<"e", "v", "e", "n", "t", "-", "3">>
      [] t = "event-9" -> <<"e", "v", "e", "n", "t", "-", "9">>
      [] t = "event-" -> <<"e", "v", "e", "n", "t", "-">>
      [] t = " " -> <<" ">>
      [] OTHER -> <<t>>

ticket_keywords ==
    <<"ticket", "event", "concert", "show", "venue", "buy", "purchase", "available", "festival", "performance", "payment",
      "pay", "send", "usdc", "balance", "wallet",
      "complete", "transaction", "address", "fund">>
bigquery_keywords ==
    <<"query", "data", "bigquery", "sql", "database", "table", "analyze">>
maps_keywords ==
    <<"map", "location", "directions", "geocode", "address", "navigation", "route">>

UpperCase == <<"A", "B", "C", "D", "E", "F", "G", "H", "I", "J", "K", "L", "M", "N", "O", "P", "Q", "R", "S", "T", "U", "V", "W", "X", "Y", "Z">>
LowerCase == <<"a", "b", "c", "d", "e", "f", "g", "h", "i", "j", "k", "l", "m", "n", "o", "p", "q", "r", "s", "t", "u", "v", "w", "x", "y", "z">>

\* characters of a string
RECURSIVE CharsOf(_)
CharsOf(toks) == IF toks = <<>> THEN <<>> ELSE Chars(Head(toks)) \o CharsOf(Tail(toks))

LowerChar(c) ==
    IF \E i \in 1..Len(UpperCase) : UpperCase[i] = c
    THEN LowerCase[CHOOSE i \in 1..Len(UpperCase) : UpperCase[i] = c]
    ELSE c

\* str.lower()
Lower(chars) == [i \in 1..Len(chars) |-> LowerChar(chars[i])]

\* k in s
IsSubstring(k, s) ==
    \E i \in 0..(Len(s) - Len(k)) : SubSeq(s, i + 1, i + Len(k)) = k

\* any(keyword in message_lower for keyword in keywords)
AnyKeyword(keywords, message_lower) ==
    \E i \in 1..Len(keywords) : IsSubstring(Chars(keywords[i]), message_lower)

\* ------------------------------------------------------------------------
\* OrchestratorAgent
\* ------------------------------------------------------------------------
OrchestratorTools ==
    <<"route_to_bigquery_agent", "route_to_ticket_agent", "route_to_maps_agent",
      "list_available_agents">>

\* self.remote_agents, in insertion order
RemoteAgentKeys == <<"bigquery", "ticket", "maps">>

RemoteAgentName(key) ==
    CASE key = "bigquery" -> "BigQuery Agent"
      [] key = "ticket" -> "Ticket Agent"
      [] key = "maps" -> "Maps Agent"

RemoteAgentDescription(key) ==
    CASE key = "bigquery" -> "Handles BigQuery data queries and analysis"
      [] key = "ticket" -> "Sells event tickets (concerts, shows, venues) with USDC blockchain payments on Base Sepolia"
      [] key = "maps" -> "Provides geospatial information and maps"

RemoteAgentUrl(key) == "http://localhost:" \o key

\* What requests.post to <url>/chat does: the downstream agent answers 200
\* with a JSON body, or the connection is refused, or anything else goes
\* wrong (timeout, non-2xx status, a body that is not JSON).
HttpOk(body) == [kind |-> "ok", body |-> body, exc |-> <<>>]
HttpRefused == [kind |-> "refused", body |-> <<>>, exc |-> <<>>]
HttpFailed(msg) == [kind |-> "failed", body |-> <<>>, exc |-> msg]

RouteOutcomes ==
    {HttpOk([response |-> <<"downstream reply">>, agent_name |-> <<"x">>]),
     HttpOk(<<>>),
     HttpRefused,
     HttpFailed(<<"Read timed out. (read timeout=30)">>),
     HttpFailed(<<"500 Server Error">>),
     HttpFailed(<<"Expecting value: line 1 column 1 (char 0)">>)}

\* _route_to_agent: the dict it returns and the request it posts
RouteToAgent(agent_key, request, http) ==
    IF \A i \in 1..Len(RemoteAgentKeys) : RemoteAgentKeys[i] # agent_key
    THEN [result |-> [error |-> <<"Unknown agent: ", agent_key>>], posts |-> <<>>]
    ELSE [result |->
            IF http.kind = "ok"
            THEN [success |-> TRUE, agent |-> <<RemoteAgentName(agent_key)>>,
                  response |-> Get(http.body, "response", <<"No response from agent">>)]
            ELSE IF http.kind = "refused"
            THEN [success |-> FALSE,
                  error |-> <<"Cannot connect to ", RemoteAgentName(agent_key), " at ",
                              RemoteAgentUrl(agent_key), ". Make sure it's running.">>]
            ELSE [success |-> FALSE,
                  error |-> <<"Error routing to ", RemoteAgentName(agent_key), ": ">>
                            \o http.exc],
          posts |-> << <<agent_key, request>> >>]

\* variant: the last agent of self.remote_agents is left out
ListAvailableAgentsTwo ==
    [success |-> TRUE,
     agents |-> [i \in 1..(Len(RemoteAgentKeys) - 1) |->
                    [key |-> <<RemoteAgentKeys[i]>>,
                     name |-> <<RemoteAgentName(RemoteAgentKeys[i])>>,
                     url |-> <<RemoteAgentUrl(RemoteAgentKeys[i])>>,
                     description |-> <<RemoteAgentDescription(RemoteAgentKeys[i])>>]]]

\* _list_available_agents; each entry is the line the listing prints for it
ListAvailableAgents ==
    [success |-> TRUE,
     agents |-> [i \in 1..Len(RemoteAgentKeys) |->
                    [key |-> <<RemoteAgentKeys[i]>>,
                     name |-> <<RemoteAgentName(RemoteAgentKeys[i])>>,
                     url |-> <<RemoteAgentUrl(RemoteAgentKeys[i])>>,
                     description |-> <<RemoteAgentDescription(RemoteAgentKeys[i])>>]]]

OrchestratorRouteTool(agent_key, parameters, http) ==
    IF "request" \notin DOMAIN parameters
    THEN [outcome |-> KeyError("request"), posts |-> <<>>]
    ELSE LET r == RouteToAgent(agent_key, <<parameters["request"]>>, http)
         IN  [outcome |-> Return(r.result), posts |-> r.posts]

\* variant: route_to_maps_agent forwards to the BigQuery agent
OrchestratorDispatchMapsToData(tool_name, parameters, http) ==
    IF tool_name = <<"route_to_bigquery_agent">>
    THEN OrchestratorRouteTool("bigquery", parameters, http)
    ELSE IF tool_name = <<"route_to_ticket_agent">>
    THEN OrchestratorRouteTool("ticket", parameters, http)
    ELSE IF tool_name = <<"route_to_maps_agent">>
    THEN OrchestratorRouteTool("bigquery", parameters, http)
    ELSE IF tool_name = <<"list_available_agents">>
    THEN [outcome |-> Return(ListAvailableAgents), posts |-> <<>>]
    ELSE [outcome |-> Return(UnknownTool(tool_name)), posts |-> <<>>]

OrchestratorDispatch(tool_name, parameters, http) ==
    IF tool_name = <<"route_to_bigquery_agent">>
    THEN OrchestratorRouteTool("bigquery", parameters, http)
    ELSE IF tool_name = <<"route_to_ticket_agent">>
    THEN OrchestratorRouteTool("ticket", parameters, http)
    ELSE IF tool_name = <<"route_to_maps_agent">>
    THEN OrchestratorRouteTool("maps", parameters, http)
    ELSE IF tool_name = <<"list_available_agents">>
    THEN [outcome |-> Return(ListAvailableAgents), posts |-> <<>>]
    ELSE [outcome |-> Return(UnknownTool(tool_name)), posts |-> <<>>]

OrchestratorExecuteTool(tool_name, parameters, http) ==
    LET d == OrchestratorDispatch(tool_name, parameters, http)
    IN  [outcome |-> CatchAll(d.outcome), posts |-> d.posts]

\* variant: the error of a failed forwarding is returned as it is
RouteReplyBare(agent_key, user_message, http) ==
    LET r == RouteToAgent(agent_key, user_message, http)
    IN  [reply |-> IF Truthy(r.result, "success")
                   THEN Get(r.result, "response",
                            <<"No response from ", RemoteAgentName(agent_key)>>)
                   ELSE Get(r.result, "error", <<"Unknown error">>),
         posts |-> r.posts]

\* the reply of one routing branch of process_request
RouteReply(agent_key, user_message, http) ==
    LET r == RouteToAgent(agent_key, user_message, http)
    IN  [reply |-> IF Truthy(r.result, "success")
                   THEN Get(r.result, "response",
                            <<"No response from ", RemoteAgentName(agent_key)>>)
                   ELSE <<"Error: ">> \o Get(r.result, "error", <<"Unknown error">>),
         posts |-> r.posts]

RECURSIVE AgentsList(_, _)
AgentsList(agents, i) ==
    IF i > Len(agents) THEN <<>>
    ELSE <<"* ">> \o agents[i].name \o <<": ">> \o agents[i].description
         \o (IF i < Len(agents) THEN <<NL>> ELSE <<>>)
         \o AgentsList(agents, i + 1)

CapabilityListing ==
    <<"I can help you with ", "3", " specialized agents:", NL, NL>>
    \o AgentsList(ListAvailableAgents.agents, 1)
    \o <<NL, NL, "What would you like to do?">>

\* variant: the BigQuery keywords are tested before the ticket keywords
OrchestratorProcessRequestDataFirst(user_message, http) ==
    LET message_lower == Lower(CharsOf(user_message))
    IN  IF AnyKeyword(bigquery_keywords, message_lower)
        THEN RouteReply("bigquery", user_message, http)
        ELSE IF AnyKeyword(ticket_keywords, message_lower)
        THEN RouteReply("ticket", user_message, http)
        ELSE IF AnyKeyword(maps_keywords, message_lower)
        THEN RouteReply("maps", user_message, http)
        ELSE [reply |-> CapabilityListing, posts |-> <<>>]

\* OrchestratorAgent.process_request
OrchestratorProcessRequest(user_message, http) ==
    LET message_lower == Lower(CharsOf(user_message))
    IN  IF AnyKeyword(ticket_keywords, message_lower)
        THEN RouteReply("ticket", user_message, http)
        ELSE IF AnyKeyword(bigquery_keywords, message_lower)
        THEN RouteReply("bigquery", user_message, http)
        ELSE IF AnyKeyword(maps_keywords, message_lower)
        THEN RouteReply("maps", user_message, http)
        ELSE [reply |-> CapabilityListing, posts |-> <<>>]

\* ------------------------------------------------------------------------
\* TicketAgent: the companion (MCP) service seen through _call_mcp
\* ------------------------------------------------------------------------
TicketTools ==
    <<"list_events", "get_event_details", "list_venues", "purchase_tickets",
      "check_payment_status", "get_my_tickets", "send_payment",
      "get_wallet_balance", "get_wallet_address">>

\* Python's None; a string is a token sequence and "" is <<>>
None == <<"\\None">>
Falsy(x) == x = None \/ x = <<>>
\* str(x) inside an f-string
Str(x) == IF x = None THEN <<"None">> ELSE x

\* a parameter value taken from the parsed JSON object
Param(parameters, k) == IF k \in DOMAIN parameters THEN <<parameters[k]>> ELSE None

\* JSON numbers among the parameter tokens: they have no string methods
NumberTokens == {"0", "1", "2", "10", "11"}
IsNumber(x) == Len(x) = 1 /\ x[1] \in NumberTokens

\* What requests.post to the companion does: an HTTP response with a status
\* and a JSON body, a refused connection, or another failure (timeout, a
\* body that is not JSON).
McpHttp(status, body) == [kind |-> "http", status |-> status, body |-> body, exc |-> <<>>]
McpRefused == [kind |-> "refused", status |-> 0, body |-> <<>>, exc |-> <<>>]
McpFailed(msg) == [kind |-> "failed", status |-> 0, body |-> <<>>, exc |-> msg]

McpServerUrl == "http://localhost:3000"

\* _call_mcp
CallMcp(http) ==
    IF http.kind = "refused"
    THEN [success |-> FALSE,
          error |-> <<"Cannot connect to MCP server at ", McpServerUrl, ". Make sure it's running.">>]
    ELSE IF http.kind = "failed"
    THEN [success |-> FALSE, error |-> http.exc]
    ELSE IF http.status = 402 THEN http.body
    ELSE IF http.status >= 400
    THEN [success |-> FALSE, error |-> <<ToString(http.status), " Error">>]
    ELSE http.body

\* ------------------------------------------------------------------------
\* TicketAgent._find_event_by_name
\* ------------------------------------------------------------------------
IsSpaceChar(c) == c \in {" ", "\n"}

RECURSIVE LStripChars(_)
LStripChars(s) == IF s # <<>> /\ IsSpaceChar(Head(s)) THEN LStripChars(Tail(s)) ELSE s

RECURSIVE RStripChars(_)
RStripChars(s) ==
    IF s # <<>> /\ IsSpaceChar(s[Len(s)]) THEN RStripChars(SubSeq(s, 1, Len(s) - 1)) ELSE s

StripChars(s) == RStripChars(LStripChars(s))

Min(a, b) == IF a < b THEN a ELSE b
Max(a, b) == IF a > b THEN a ELSE b

\* similarity(s1, s2) as the fraction num/den: positions where the two
\* strings agree over the length of the longer one (0 when both are empty)
Similarity(s1, s2) ==
    LET a == Lower(s1)
        b == Lower(s2)
        matches == Cardinality({i \in 1..Min(Len(a), Len(b)) : a[i] = b[i]})
        max_len == Max(Len(a), Len(b))
    IN  IF max_len > 0 THEN [num |-> matches, den |-> max_len]
        ELSE [num |-> 0, den |-> 1]

\* best_score = 0.7
SimilarityThreshold == [num |-> 7, den |-> 10]

\* x > y on fractions
FracGreater(x, y) == x.num * y.den > y.num * x.den

\* what best_match holds when the loop met KeyError on event["id"]
IdMissing == <<"\\KeyError">>

\* the loop "for event in events: if score > best_score"
RECURSIVE BestMatch(_, _, _, _)
BestMatch(events, event_name_lower, best_score, best_match) ==
    IF events = <<>> THEN best_match
    ELSE LET event == Head(events)
             score == Similarity(event_name_lower, Lower(CharsOf(event["name"])))
         IN  IF FracGreater(score, best_score)
             THEN IF "id" \notin DOMAIN event THEN IdMissing
                  ELSE BestMatch(Tail(events), event_name_lower, score, event["id"])
             ELSE BestMatch(Tail(events), event_name_lower, best_score, best_match)

\* index of the first event among those at the indexes S, 0 when S is empty
FirstIndex(S) ==
    IF S = {} THEN 0 ELSE CHOOSE i \in S : \A j \in S : i <= j

\* return event["id"]
EventId(event) == IF "id" \in DOMAIN event THEN Return(event["id"]) ELSE KeyError("id")

\* variant: the similarity score is tried before the substring matches
FindEventByNameScoreFirst(event_name, list_http) ==
    LET result == CallMcp(list_http)
        events == Get(result, "events", <<>>)
    IN  IF ~(Truthy(result, "success") /\ events # <<>>) THEN Return(None)
        ELSE IF \E i \in 1..Len(events) : "name" \notin DOMAIN events[i]
        THEN KeyError("name")
        ELSE
        LET event_name_lower == StripChars(Lower(CharsOf(event_name)))
            NameHasRef(event) == IsSubstring(event_name_lower, Lower(CharsOf(event["name"])))
            RefHasName(event) == IsSubstring(Lower(CharsOf(event["name"])), event_name_lower)
            i1 == FirstIndex({i \in 1..Len(events) : NameHasRef(events[i])})
            i2 == FirstIndex({i \in 1..Len(events) : RefHasName(events[i])})
            best == BestMatch(events, event_name_lower, SimilarityThreshold, None)
        IN  IF best = IdMissing THEN KeyError("id")
            ELSE IF ~Falsy(best) THEN Return(best)
            ELSE IF i1 > 0 THEN EventId(events[i1])
            ELSE IF i2 > 0 THEN EventId(events[i2])
            ELSE Return(None)

\* the result is the event id, or None; the first loop raises KeyError at
\* an event without "name" unless an earlier event matched, and a chosen
\* event without "id" raises KeyError
FindEventByName(event_name, list_http) ==
    LET result == CallMcp(list_http)
        events == Get(result, "events", <<>>)
    IN  IF ~(Truthy(result, "success") /\ events # <<>>) THEN Return(None)
        ELSE
        LET event_name_lower == StripChars(Lower(CharsOf(event_name)))
            NameHasRef(event) == IsSubstring(event_name_lower, Lower(CharsOf(event["name"])))
            RefHasName(event) == IsSubstring(Lower(CharsOf(event["name"])), event_name_lower)
            n1 == FirstIndex({i \in 1..Len(events) : "name" \notin DOMAIN events[i]})
            seen == IF n1 = 0 THEN Len(events) ELSE n1 - 1
            i1 == FirstIndex({i \in 1..seen : NameHasRef(events[i])})
            i2 == FirstIndex({i \in 1..Len(events) : RefHasName(events[i])})
            best == BestMatch(events, event_name_lower, SimilarityThreshold, None)
        IN  IF i1 > 0 THEN EventId(events[i1])
            ELSE IF n1 > 0 THEN KeyError("name")
            ELSE IF i2 > 0 THEN EventId(events[i2])
            ELSE IF best = IdMissing THEN KeyError("id")
            ELSE IF ~Falsy(best) THEN Return(best)
            ELSE Return(None)

\* event_id.startswith("event-")
EventIdPrefix == <<"e", "v", "e", "n", "t", "-">>
LooksLikeId(event_id) ==
    LET c == CharsOf(event_id)
    IN  Len(c) >= Len(EventIdPrefix) /\ SubSeq(c, 1, Len(EventIdPrefix)) = EventIdPrefix

\* ------------------------------------------------------------------------
\* TicketAgent.execute_tool
\* ------------------------------------------------------------------------
\* format(amount, ".2f") on the digits of a number with at most two
\* decimals; anything that is not a number raises ValueError
Digits == {"0", "1", "2", "3", "4", "5", "6", "7", "8", "9"}

IsDecimal(a) ==
    /\ a # <<>>
    /\ a[1] \in Digits
    /\ \A i \in 1..Len(a) : a[i] \in Digits \cup {"."}
    /\ Cardinality({i \in 1..Len(a) : a[i] = "."}) <= 1

Format2f(a) ==
    IF \A i \in 1..Len(a) : a[i] # "." THEN a \o <<".", "0", "0">>
    ELSE LET dot == CHOOSE i \in 1..Len(a) : a[i] = "."
             frac == SubSeq(a, dot + 1, Len(a))
         IN  SubSeq(a, 1, dot) \o SubSeq(frac \o <<"0", "0">>, 1, 2)

\* one request sent to the companion
McpCall(tool, params) == [tool |-> tool, params |-> params]

PaymentInstructions(payment_intent) ==
    LET blockchain == Get(payment_intent, "blockchain", <<>>)
        payment_address == Get(blockchain, "paymentAddress", <<"N/A">>)
        amount == Get(payment_intent, "amount", <<"0">>)
    IN  <<"Ticket Reserved! USDC Payment Required", NL, "Payment Amount: $">>
        \o Format2f(amount) \o <<" USDC", NL, "Send USDC to this address on Base Sepolia:", NL>>
        \o payment_address
        \o <<NL, "Network: ">> \o Get(blockchain, "network", <<"Base Sepolia">>)
        \o <<NL, "Chain ID: ">> \o Get(blockchain, "chainId", <<"84532">>)
        \o <<NL, "Expires: ">> \o Get(payment_intent, "expiresAt", <<"N/A">>)
        \o <<NL, "Payment Intent ID: ">> \o Get(payment_intent, "id", <<"N/A">>)
        \o <<NL, "Simply say: Send $">> \o amount \o <<" USDC to ">> \o payment_address
        \o <<NL, "1. Send EXACTLY $">> \o Format2f(amount) \o <<" USDC", NL>>

NoPendingPaymentMessage ==
    <<"No Pending Payments Found", NL,
      "Please purchase a ticket first, then I can complete the payment!">>

PaymentSentMessage(parameters, result) ==
    <<"USDC Payment Sent Successfully!", NL, "Amount: $">>
    \o Str(Param(parameters, "amount_usd")) \o <<" USDC", NL, "To: ">>
    \o Str(Param(parameters, "to_address")) \o <<NL, "Transaction: ">>
    \o Str(Get(result, "transactionHash", None)) \o <<NL, "View on Explorer: ">>
    \o Str(Get(result, "explorerUrl", None))

\* result["message"] = ...
WithMessage(result, message) ==
    [k \in DOMAIN result \cup {"message"} |-> IF k = "message" THEN message ELSE result[k]]

\* the event_id handed on after the name lookup of get_event_details
TicketGetEventDetails(parameters, mcp) ==
    LET event_id == Param(parameters, "event_id")
    IN  IF Falsy(event_id)
        THEN [outcome |-> Return(CallMcp(mcp.main)),
              calls |-> <<McpCall("get_event", [eventId |-> event_id])>>]
        ELSE IF IsNumber(event_id)
        THEN [outcome |-> Raise(<<"'int' object has no attribute 'startswith'">>),
              calls |-> <<>>]
        ELSE IF LooksLikeId(event_id)
        THEN [outcome |-> Return(CallMcp(mcp.main)),
              calls |-> <<McpCall("get_event", [eventId |-> event_id])>>]
        ELSE LET found == FindEventByName(event_id, mcp.list)
                 listed == <<McpCall("list_events", <<>>)>>
             IN  IF found.raised THEN [outcome |-> found, calls |-> listed]
                 ELSE LET id == IF ~Falsy(found.value) THEN found.value ELSE event_id
                      IN  [outcome |-> Return(CallMcp(mcp.main)),
                           calls |-> listed \o <<McpCall("get_event", [eventId |-> id])>>]

PurchaseRequest(event_id, parameters) ==
    McpCall("purchase_tickets",
            [eventId |-> event_id,
             quantity |-> Get(parameters, "quantity", "1"),
             customerEmail |-> Get(parameters, "customer_email", "customer@example.com"),
             customerName |-> Get(parameters, "customer_name", "Customer")])

\* variant: the companion's answer is handed back as it came
TicketPurchaseRaw(event_id, parameters, mcp, calls) ==
    [outcome |-> Return(CallMcp(mcp.main)),
     calls |-> calls \o <<PurchaseRequest(event_id, parameters)>>]

\* the part of purchase_tickets after the event id is settled
TicketPurchase(event_id, parameters, mcp, calls) ==
    LET result == CallMcp(mcp.main)
        sent == calls \o <<PurchaseRequest(event_id, parameters)>>
        payment_intent == Get(result, "paymentIntent", <<>>)
    IN  IF Truthy(result, "requiresPayment")
        THEN IF ~IsDecimal(Get(payment_intent, "amount", <<"0">>))
             THEN [outcome |-> Raise(<<"Unknown format code 'f' for object of type 'str'">>),
                   calls |-> sent]
             ELSE [outcome |-> Return([success |-> TRUE,
                                       result |-> PaymentInstructions(payment_intent),
                                       paymentIntent |-> payment_intent]),
                   calls |-> sent]
        ELSE [outcome |-> Return(result), calls |-> sent]

EventNotFound(event_id) ==
    [success |-> FALSE,
     error |-> <<"Event '">> \o event_id
               \o <<"' not found. Please use one of: Summer Music Festival 2025, Tech Conference 2025, Rock Legends Concert, or Broadway Musical Night">>]

TicketPurchaseTickets(parameters, mcp) ==
    LET event_id == Param(parameters, "event_id")
    IN  IF Falsy(event_id) THEN TicketPurchase(event_id, parameters, mcp, <<>>)
        ELSE IF IsNumber(event_id)
        THEN [outcome |-> Raise(<<"'int' object has no attribute 'startswith'">>),
              calls |-> <<>>]
        ELSE IF LooksLikeId(event_id) THEN TicketPurchase(event_id, parameters, mcp, <<>>)
        ELSE LET found == FindEventByName(event_id, mcp.list)
                 listed == <<McpCall("list_events", <<>>)>>
             IN  IF found.raised THEN [outcome |-> found, calls |-> listed]
                 ELSE IF ~Falsy(found.value)
                 THEN TicketPurchase(found.value, parameters, mcp, listed)
                 ELSE [outcome |-> Return(EventNotFound(event_id)), calls |-> listed]

\* variant: the payment is submitted although no pending payment was found
TicketSendPaymentNoCheck(parameters, mcp) ==
    LET given_address == Param(parameters, "to_address")
        given_amount == Param(parameters, "amount_usd")
        lookup == Falsy(given_address) \/ Falsy(given_amount)
        payment_intent == Get(CallMcp(mcp.pending), "paymentIntent", <<>>)
        to_address == IF lookup
                      THEN Get(Get(payment_intent, "blockchain", <<>>), "paymentAddress", None)
                      ELSE given_address
        amount_usd == IF lookup THEN Str(Get(payment_intent, "amount", <<"0">>))
                      ELSE given_amount
        looked == IF lookup THEN <<McpCall("get_pending_payment", <<>>)>> ELSE <<>>
        result == CallMcp(mcp.main)
    IN  [outcome |->
            Return(IF Truthy(result, "success")
                   THEN WithMessage(result, PaymentSentMessage(parameters, result))
                   ELSE WithMessage(result,
                            <<"Payment failed: ">>
                            \o Get(result, "error", <<"Unknown error">>))),
         calls |-> looked \o <<McpCall("send_payment",
                                       [toAddress |-> to_address,
                                        amountUSD |-> amount_usd,
                                        memo |-> Get(parameters, "memo", "")])>>]

\* variant: the values of the pending payment are looked up but the
\* caller's values are submitted
TicketSendPaymentNoFill(parameters, mcp) ==
    LET lookup == Falsy(Param(parameters, "to_address"))
                  \/ Falsy(Param(parameters, "amount_usd"))
        pending_result == CallMcp(mcp.pending)
        looked == IF lookup THEN <<McpCall("get_pending_payment", <<>>)>> ELSE <<>>
        result == CallMcp(mcp.main)
    IN  IF lookup /\ ~(/\ Truthy(pending_result, "success")
                       /\ Get(pending_result, "paymentIntent", <<>>) # <<>>)
        THEN [outcome |-> Return([success |-> TRUE, result |-> NoPendingPaymentMessage]),
              calls |-> looked]
        ELSE [outcome |->
                Return(IF Truthy(result, "success")
                       THEN WithMessage(result, PaymentSentMessage(parameters, result))
                       ELSE WithMessage(result,
                                <<"Payment failed: ">>
                                \o Get(result, "error", <<"Unknown error">>))),
              calls |-> looked \o <<McpCall("send_payment",
                                           [toAddress |-> Param(parameters, "to_address"),
                                            amountUSD |-> Param(parameters, "amount_usd"),
                                            memo |-> Get(parameters, "memo", "")])>>]

TicketSendPayment(parameters, mcp) ==
    LET given_address == Param(parameters, "to_address")
        given_amount == Param(parameters, "amount_usd")
        lookup == Falsy(given_address) \/ Falsy(given_amount)
        pending_result == CallMcp(mcp.pending)
        payment_intent == Get(pending_result, "paymentIntent", <<>>)
        has_pending == Truthy(pending_result, "success") /\ payment_intent # <<>>
        blockchain == Get(payment_intent, "blockchain", <<>>)
        to_address == IF lookup THEN Get(blockchain, "paymentAddress", None)
                      ELSE given_address
        amount_usd == IF lookup THEN Str(Get(payment_intent, "amount", <<"0">>))
                      ELSE given_amount
        looked == IF lookup THEN <<McpCall("get_pending_payment", <<>>)>> ELSE <<>>
        result == CallMcp(mcp.main)
    IN  IF lookup /\ ~has_pending
        THEN [outcome |-> Return([success |-> TRUE, result |-> NoPendingPaymentMessage]),
              calls |-> looked]
        ELSE [outcome |->
                Return(IF Truthy(result, "success")
                       THEN WithMessage(result, PaymentSentMessage(parameters, result))
                       ELSE WithMessage(result,
                                <<"Payment failed: ">>
                                \o Get(result, "error", <<"Unknown error">>))),
              calls |-> looked \o <<McpCall("send_payment",
                                           [toAddress |-> to_address,
                                            amountUSD |-> amount_usd,
                                            memo |-> Get(parameters, "memo", "")])>>]

\* requests.get(.../get_balance) inside its own try/except
GetBalance(http) ==
    IF http.kind = "refused" THEN Raise(<<"Connection refused">>)
    ELSE IF http.kind = "failed" THEN Raise(http.exc)
    ELSE IF http.status >= 400 THEN Raise(<<ToString(http.status), " Error">>)
    ELSE Return(http.body)

WalletBalanceMessage(result) ==
    <<"Agent Wallet Balance", NL, "Wallet Address: ">> \o Str(Get(result, "address", None))
    \o <<NL, "USDC Balance: $">> \o Get(result, "balanceUSDC", <<"0.00">>)
    \o <<NL, "ETH Balance (for gas): ">> \o Get(result, "balanceETH", <<"0.0">>)
    \o <<NL, "Network: ">> \o Str(Get(result, "network", None))
    \o <<NL, "Chain ID: ">> \o Str(Get(result, "chainId", None))
    \o <<NL, "Send to: ">> \o Str(Get(result, "address", None))

WalletAddressMessage(result) ==
    <<"Agent Wallet Address", NL>> \o Str(Get(result, "address", None))
    \o <<NL, "Network: Base Sepolia (Chain ID: ">> \o Get(result, "chainId", <<"84532">>)
    \o <<")">>

TicketWalletBalance(mcp) ==
    LET got == GetBalance(mcp.main)
    IN  [outcome |->
            IF got.raised THEN Return([success |-> FALSE, error |-> got.exc])
            ELSE IF Truthy(got.value, "success")
            THEN Return(WithMessage(got.value, WalletBalanceMessage(got.value)))
            ELSE Return(got.value),
         calls |-> <<McpCall("get_balance", <<>>)>>]

TicketWalletAddress(mcp) ==
    LET got == GetBalance(mcp.main)
    IN  [outcome |->
            IF got.raised THEN Return([success |-> FALSE, error |-> got.exc])
            ELSE IF Truthy(got.value, "success")
            THEN Return([success |-> TRUE, result |-> WalletAddressMessage(got.value)])
            ELSE Return([success |-> FALSE,
                         error |-> <<"Could not retrieve wallet address">>]),
         calls |-> <<McpCall("get_balance", <<>>)>>]

\* the pass-through tools
TicketPassThrough(tool, params, mcp) ==
    [outcome |-> Return(CallMcp(mcp.main)), calls |-> <<McpCall(tool, params)>>]

TicketDispatch(tool_name, parameters, mcp) ==
    IF tool_name = <<"list_events">> THEN TicketPassThrough("list_events", parameters, mcp)
    ELSE IF tool_name = <<"get_event_details">> THEN TicketGetEventDetails(parameters, mcp)
    ELSE IF tool_name = <<"list_venues">> THEN TicketPassThrough("list_venues", parameters, mcp)
    ELSE IF tool_name = <<"purchase_tickets">> THEN TicketPurchaseTickets(parameters, mcp)
    ELSE IF tool_name = <<"check_payment_status">>
    THEN TicketPassThrough("check_payment_status",
                           [paymentIntentId |-> Param(parameters, "payment_intent_id")], mcp)
    ELSE IF tool_name = <<"get_my_tickets">>
    THEN TicketPassThrough("get_my_tickets", parameters, mcp)
    ELSE IF tool_name = <<"send_payment">> THEN TicketSendPayment(parameters, mcp)
    ELSE IF tool_name = <<"get_wallet_balance">> THEN TicketWalletBalance(mcp)
    ELSE IF tool_name = <<"get_wallet_address">> THEN TicketWalletAddress(mcp)
    ELSE [outcome |-> Return(UnknownTool(tool_name)), calls |-> <<>>]

\* the try/except around the dispatch
TicketCaught(d) == [outcome |-> CatchAll(d.outcome), calls |-> d.calls]

TicketExecuteTool(tool_name, parameters, mcp) ==
    TicketCaught(TicketDispatch(tool_name, parameters, mcp))

\* ------------------------------------------------------------------------
\* The companion service: the responses the Ticket agent can receive
\* ------------------------------------------------------------------------
EventNames == <<"Jazz Might", "Jazz Night Live", "Pop Gala">>

Event(i) ==
    [id |-> <<"event-", ToString(i)>>,
     name |-> <<EventNames[((i - 1) % Len(EventNames)) + 1]>>,
     date |-> <<"2025-07-", ToString(i)>>,
     time |-> <<"19:00">>,
     venue |-> <<"City Hall">>,
     priceUSD |-> <<"2", "5">>,
     availableTickets |-> <<"100">>,
     description |-> <<"event ", ToString(i)>>]

\* the n events that follow the first `first` events of the catalogue
EventList(first, n) == [i \in 1..n |-> Event(first + i)]

PaymentIntents ==
    {[id |-> <<"pi_1">>, amount |-> <<"2", "5">>, expiresAt |-> <<"tomorrow">>,
      blockchain |-> [paymentAddress |-> <<"0xAAA">>, network |-> <<"Base Sepolia">>,
                      chainId |-> <<"84532">>]],
     [id |-> <<"pi_2">>, amount |-> <<"1", "2", ".", "5">>, expiresAt |-> <<"tomorrow">>,
      blockchain |-> [paymentAddress |-> <<"0xBBB">>, network |-> <<"Base Sepolia">>,
                      chainId |-> <<"84532">>]]}

TransportFailures ==
    {McpRefused, McpFailed(<<"Read timed out. (read timeout=10)">>),
     McpFailed(<<"Expecting value: line 1 column 1 (char 0)">>),
     McpHttp(500, <<>>)}

Refusal(msg) == McpHttp(200, [success |-> FALSE, error |-> msg])

\* responses to list_events
ListEventsResponses ==
    {McpHttp(200, [success |-> TRUE, events |-> EventList(first, n)]) :
        first \in {0, 1}, n \in 0..MaxEvents}
    \cup TransportFailures

\* the live event list that _find_event_by_name reads; the last one holds
\* an event without a name
LiveEventLists ==
    {McpHttp(200, [success |-> TRUE, events |-> EventList(0, 3)]),
     McpHttp(200, [success |-> TRUE, events |-> EventList(1, 2)]),
     McpHttp(200, [success |-> TRUE, events |-> <<>>]),
     McpHttp(200, [success |-> TRUE, events |-> <<[id |-> <<"event-", "7">>]>>]),
     McpRefused}

\* responses of the companion to the request that a tool ends with
CompanionResponses(tool_name) ==
    TransportFailures \cup
    (IF tool_name = <<"list_events">> THEN ListEventsResponses
     ELSE IF tool_name = <<"get_event_details">>
     THEN {McpHttp(200, [success |-> TRUE, event |-> <<"event ", "1">>]),
           Refusal(<<"Event not found">>)}
     ELSE IF tool_name = <<"list_venues">>
     THEN {McpHttp(200, [success |-> TRUE, venues |-> <<"City Hall", ",", "Arena">>])}
     ELSE IF tool_name = <<"purchase_tickets">>
     THEN {McpHttp(402, [requiresPayment |-> TRUE, paymentIntent |-> pi]) :
              pi \in PaymentIntents}
          \cup {Refusal(<<"Event not found">>), Refusal(<<"Not enough tickets">>)}
     ELSE IF tool_name = <<"check_payment_status">>
     THEN {McpHttp(200, [success |-> TRUE, status |-> <<"pending">>]),
           Refusal(<<"Payment intent not found">>)}
     ELSE IF tool_name = <<"get_my_tickets">>
     THEN {McpHttp(200, [success |-> TRUE, tickets |-> <<"tkt_1">>])}
     ELSE IF tool_name = <<"send_payment">>
     THEN {McpHttp(200, [success |-> TRUE, transactionHash |-> <<"0xHASH">>,
                         explorerUrl |-> <<"https://sepolia.basescan.org/tx/0xHASH">>]),
           Refusal(<<"Insufficient USDC balance">>)}
     ELSE IF tool_name \in {<<"get_wallet_balance">>, <<"get_wallet_address">>}
     THEN {McpHttp(200, [success |-> TRUE, address |-> <<"0xWALLET">>,
                         balanceUSDC |-> <<"1", "0", ".", "0", "0">>,
                         balanceETH |-> <<"0", ".", "1">>,
                         network |-> <<"Base Sepolia">>, chainId |-> <<"84532">>,
                         usdcContract |-> <<"0x036C">>]),
           Refusal(<<"Wallet not configured">>)}
     ELSE {})

\* the companion's slot of the most recent pending payment: empty, or the
\* PaymentIntent of the latest reservation
NoPending == <<>>

\* responses to get_pending_payment when the slot holds `slot`
PendingResponses(slot) ==
    {IF slot = NoPending THEN Refusal(<<"No pending payment">>)
     ELSE McpHttp(200, [success |-> TRUE, paymentIntent |-> slot]),
     McpRefused}

\* the slot after one execute_tool call that sent `calls` and met the
\* responses mcp: a reservation that requires payment overwrites it, a
\* payment submission that the companion answered (completed or failed)
\* empties it, a request that never reached the companion leaves it
PendingAfter(slot, calls, mcp) ==
    IF calls = <<>> \/ mcp.main.kind # "http" \/ mcp.main.status >= 500 THEN slot
    ELSE IF calls[Len(calls)].tool = "purchase_tickets"
    THEN IF mcp.main.status = 402 /\ "paymentIntent" \in DOMAIN mcp.main.body
         THEN mcp.main.body["paymentIntent"] ELSE slot
    ELSE IF calls[Len(calls)].tool = "send_payment" THEN NoPending
    ELSE slot

\* the responses one execute_tool call can meet when the slot holds `slot`
McpEnvs(tool_name, slot) ==
    LET mains == IF CompanionResponses(tool_name) = {} THEN {McpRefused}
                 ELSE CompanionResponses(tool_name)
        lists == IF tool_name \in {<<"get_event_details">>, <<"purchase_tickets">>}
                 THEN LiveEventLists ELSE {McpRefused}
        pendings == IF tool_name = <<"send_payment">> THEN PendingResponses(slot)
                    ELSE {McpRefused}
    IN  [list : lists, main : mains, pending : pendings]

\* ------------------------------------------------------------------------
\* The agents and what surrounds one call
\* ------------------------------------------------------------------------
Agents == {"bigquery", "maps", "ticket", "orchestrator"}

\* the agents whose process_request is BaseAgent.process_request
BaseAgents == {"bigquery", "maps", "ticket"}

\* get_tools(): the names, in declaration order
Tools(agent) ==
    CASE agent = "bigquery" -> BigQueryTools
      [] agent = "maps" -> MapsTools
      [] agent = "ticket" -> TicketTools
      [] agent = "orchestrator" -> OrchestratorTools

IsToolOf(agent, tool_name) ==
    \E i \in 1..Len(Tools(agent)) : tool_name = <<Tools(agent)[i]>>

\* self.client after __init__
ClientsAfterInit(agent) ==
    IF agent = "bigquery" THEN {BigQueryClient, NoClient} ELSE {GenaiClient}

\* everything outside the agent that one execute_tool call depends on
Env(api_key, init_ok, remote, mcp, http) ==
    [api_key |-> api_key, init_ok |-> init_ok, remote |-> remote, mcp |-> mcp, http |-> http]

NoMcp == [list |-> McpRefused, main |-> McpRefused, pending |-> McpRefused]

NoEnv == Env("", TRUE, "ok", NoMcp, HttpRefused)

Envs(agent, tool_name, slot) ==
    CASE agent = "maps" ->
            {Env(k, TRUE, "ok", NoMcp, HttpRefused) : k \in MapsApiKeys}
      [] agent = "bigquery" ->
            {Env("", i, r, NoMcp, HttpRefused) : i \in BOOLEAN, r \in BigQueryOutcomes}
      [] agent = "ticket" ->
            {Env("", TRUE, "ok", m, HttpRefused) : m \in McpEnvs(tool_name, slot)}
      [] agent = "orchestrator" ->
            {Env("", TRUE, "ok", NoMcp, h) : h \in RouteOutcomes}

\* agent.execute_tool(tool_name, parameters): its outcome, the client it
\* leaves behind, the companion requests and the downstream posts it made
\* what one execute_tool call leaves behind: r is the executor's record, which
\* holds the client, the companion requests or the posts only when the agent
\* has them
Executed(r, client) ==
    [outcome |-> r.outcome,
     client |-> IF "client" \in DOMAIN r THEN r.client ELSE client,
     calls |-> IF "calls" \in DOMAIN r THEN r.calls ELSE <<>>,
     posts |-> IF "posts" \in DOMAIN r THEN r.posts ELSE <<>>]

ExecuteTool(agent, tool_name, parameters, client, env) ==
    CASE agent = "maps" ->
            Executed([outcome |-> MapsExecuteTool(tool_name, parameters, env.api_key)],
                     client)
      [] agent = "bigquery" ->
            Executed(BigQueryExecuteTool(tool_name, parameters, client, env.init_ok,
                                         env.remote), client)
      [] agent = "ticket" ->
            Executed(TicketExecuteTool(tool_name, parameters, env.mcp), client)
      [] agent = "orchestrator" ->
            Executed(OrchestratorExecuteTool(tool_name, parameters, env.http), client)

\* ------------------------------------------------------------------------
\* BaseAgent.process_request
\* ------------------------------------------------------------------------
\* what generate_content does: it returns a text or it raises
ModelText(text) == [kind |-> "text", text |-> text, exc |-> <<>>]
ModelDown == [kind |-> "raise", text |-> <<>>, exc |-> <<"503 UNAVAILABLE">>]
\* response.text is None when the answer holds no text part
ModelNoText == [kind |-> "none", text |-> <<>>, exc |-> <<>>]

\* variant: the stripped text is returned
NoToolReplyStripped(response_text) == Strip(response_text)

\* return response_text
NoToolReply(response_text) == response_text

NoResult == Return(<<>>)

Reply(reply, response_text, model_state, executed, exec) ==
    [raised |-> FALSE, exc |-> <<>>, reply |-> reply,
     response_text |-> response_text, model_state |-> model_state,
     executed |-> executed, tool_result |-> exec.outcome,
     client |-> exec.client, calls |-> exec.calls, posts |-> exec.posts]

Fault(exc, response_text, model_state, executed, exec) ==
    [Reply(<<>>, response_text, model_state, executed, exec)
        EXCEPT !.raised = TRUE, !.exc = exc]

NoExec(client) == [outcome |-> NoResult, client |-> client, calls |-> <<>>, posts |-> <<>>]

\* lines 161-188: the reply made of the result of execute_tool
ToolReply(response_text, executed, exec) ==
    IF exec.outcome.raised
    THEN Fault(exec.outcome.exc, response_text, "returned", executed, exec)
    ELSE Reply(FormatResult(exec.outcome.value), response_text, "returned",
               executed, exec)

\* lines 143-190: after the parsing loop, with call the tool call it found
ParsedReply(agent, client, env, response_text, call) ==
    IF Contains(response_text, USE_TOOL) /\ call.tool_name # NoTool
    THEN ToolReply(response_text,
                   <<[tool_name |-> call.tool_name, parameters |-> call.parameters]>>,
                   ExecuteTool(agent, call.tool_name, call.parameters, client, env))
    ELSE Reply(NoToolReply(response_text), response_text, "returned", <<>>,
               NoExec(client))

\* the body of the try block
ProcessRequestBody(agent, client, model, env) ==
    IF client # GenaiClient
    THEN Fault(<<"'", client, "' object has no attribute 'models'">>,
               <<>>, "not_called", <<>>, NoExec(client))
    ELSE IF model.kind = "raise"
    THEN Fault(model.exc, <<>>, "raised", <<>>, NoExec(client))
    ELSE IF Tools(agent) = <<>>
    THEN Reply(IF model.kind = "none" THEN None ELSE model.text, model.text,
               "returned", <<>>, NoExec(client))
    ELSE IF model.kind = "none"
    THEN Fault(<<"argument of type 'NoneType' is not iterable">>,
               None, "returned_none", <<>>, NoExec(client))
    ELSE ParsedReply(agent, client, env, model.text, ParseToolCall(model.text))

\* variant: no except clause
ErrorProcessingRequestMissing(r) == r

\* except Exception as e: return f"Error processing request: {str(e)}"
ErrorProcessingRequest(r) ==
    IF r.raised
    THEN [r EXCEPT !.raised = FALSE, !.reply = <<"Error processing request: ">> \o r.exc]
    ELSE r

ProcessRequest(agent, client, model, env) ==
    ErrorProcessingRequest(ProcessRequestBody(agent, client, model, env))

\* what the /chat handler answers: AgentResponse(success=True) with status
\* 200, or HTTPException(status_code=500) when process_request raised
ChatResponse(reply, raised) ==
    IF raised THEN [status |-> 500, success |-> FALSE, response |-> <<>>]
    ELSE [status |-> 200, success |-> TRUE, response |-> reply]

\* ------------------------------------------------------------------------
\* Inputs
\* ------------------------------------------------------------------------
UnknownToolName == "no_such_tool"

\* the tools the model names in its answers, two per agent
ModelTools(agent) ==
    CASE agent = "bigquery" -> <<"list_datasets", "list_tables">>
      [] agent = "maps" -> <<"geocode", "generate_static_map">>
      [] agent = "ticket" -> <<"list_events", "list_venues">>
      [] agent = "orchestrator" -> <<"list_available_agents", "route_to_maps_agent">>

\* JSON texts after PARAMETERS: two objects, an empty object, a broken one
JsonTexts(agent) ==
    LET k == CASE agent = "bigquery" -> "dataset_id"
               [] agent = "maps" -> "address"
               [] agent = "ticket" -> "category"
               [] agent = "orchestrator" -> "request"
    IN  {<<"{", "}">>,
         <<"{", k, ":", SP, "v1", "}">>,
         <<"{", k, ":", "v2", ",", SP, "center", ":", "c1", "}">>,
         <<"{", k, ":", "v1">>}

Lines(agent) ==
    {<<"Sure,", SP, "one moment", SP>>,
     <<"I will", SP, USE_TOOL, SP, ModelTools(agent)[1]>>,
     <<USE_TOOL, SP, ModelTools(agent)[1]>>,
     <<USE_TOOL, SP, UnknownToolName, SP>>,
     <<SP, USE_TOOL, SP, ModelTools(agent)[2]>>,
     <<USE_TOOL>>}
    \cup {<<PARAMETERS, SP>> \o j : j \in JsonTexts(agent)}

Texts(agent) ==
    {JoinLines(ls) : ls \in UNION {[1..n -> Lines(agent)] : n \in 1..MaxLines}}

ModelOutcomes(agent) == {ModelText(t) : t \in Texts(agent)} \cup {ModelDown, ModelNoText}

\* tool names and parameters of direct execute_tool calls
\* the conversations that are followed through the ticket and payment flow
Conversations == {"A", "B"}
NoConversation == "none"

\* the tools of the ticket and payment flow
FlowTools == {<<"purchase_tickets">>, <<"send_payment">>}

\* the ticket tools that the tests and the client example ask for
TicketStoreTools == <<"create_ticket", "update_ticket", "list_all_tickets">>

ToolNames(agent) ==
    {<<Tools(agent)[i]>> : i \in 1..Len(Tools(agent))} \cup {<<UnknownToolName>>}
    \cup (IF agent = "ticket"
          THEN {<<TicketStoreTools[i]>> : i \in 1..Len(TicketStoreTools)} ELSE {})

ToolParameters(agent) ==
    CASE agent = "bigquery" ->
            {<<>>, [dataset_id |-> "ds1"], [dataset_id |-> "ds1", table_id |-> "t1"],
             [query |-> "SELECT 1"], [query |-> "SELECT 1", max_results |-> "10"]}
      [] agent = "maps" ->
            {<<>>, [address |-> "a1"], [latitude |-> "1"],
             [latitude |-> "1", longitude |-> "2"],
             [origin |-> "a1", destination |-> "a2"],
             [origins |-> "a1", destinations |-> "a2", mode |-> "walking"],
             [location |-> "a1"], [center |-> "c1", markers |-> "m1"]}
      [] agent = "ticket" ->
            {<<>>, [event_id |-> "event-1"], [event_id |-> "Jazz Night"],
             [event_id |-> "Jazz Fight", quantity |-> "2"],
             [event_id |-> "Opera", quantity |-> "11"],
             [event_id |-> "event-1", quantity |-> "11"],
             [event_id |-> "see Pop Gala"],
             [event_id |-> "2"],
             [payment_intent_id |-> "pi_1"],
             [to_address |-> "0xCCC", amount_usd |-> "3"],
             [to_address |-> "0xCCC"],
             [title |-> "Test Ticket", description |-> "Test description",
              category |-> "bug", priority |-> "high"],
             [ticket_id |-> "TICKET-1", status |-> "in_progress",
              note |-> "Working on it"]}
      [] agent = "orchestrator" ->
            {<<>>, [request |-> "Buy"], [request |-> "hello"],
             [request |-> "Map"], [request |-> "sql"]}

\* user messages to the Orchestrator: words separated by blanks
Words == {"Buy", "DATA", "Map", "hello", "Database", "address", "Showcase", "sql"}

RECURSIVE JoinWords(_)
JoinWords(ws) ==
    IF Len(ws) <= 1 THEN ws ELSE <<ws[1], SP>> \o JoinWords(Tail(ws))

Messages == {JoinWords(ws) : ws \in UNION {[1..n -> Words] : n \in 1..MaxWords}}

\* ------------------------------------------------------------------------
\* State
\* ------------------------------------------------------------------------
VARIABLES
    phase,          \* "idle", or which handler has just returned
    agent,          \* the agent that handled the request
    client,         \* self.client of every agent
    user_message,   \* the message of the chat request
    response_text,  \* the text the model returned
    model_state,    \* "not_called", "returned", "returned_none" or "raised"
    executed,       \* the execute_tool calls of the request: name and parameters
    tool_result,    \* what the last execute_tool call returned or raised
    calls,          \* the requests sent to the companion service
    posts,          \* the requests posted to downstream agents
    reply,          \* the string the handler returned
    raised,         \* an exception left the handler
    env,            \* what the services outside the agent answered to the request
    pending,        \* the companion's slot of the most recent pending payment
    paid,           \* an argument-less send_payment succeeded and no
                    \* purchase_tickets was executed since
    created,        \* how many create_ticket calls the ticket agent has executed
    conv,           \* the conversation that sent the request, when it is followed
    reserved,       \* per conversation, the PaymentIntent of its latest reservation
    dropped,        \* the reservation of a followed conversation that a later
                    \* reservation overwrote in the slot while it was pending
    failed          \* the companion reported the latest payment submission of a
                    \* followed conversation as failed, and no purchase_tickets
                    \* was executed since

vars == <<phase, agent, client, user_message, response_text, model_state,
          executed, tool_result, calls, posts, reply, raised, env, pending, paid, created,
          conv, reserved, dropped, failed>>

Idle ==
    /\ phase = "idle"
    /\ agent = "orchestrator"
    /\ user_message = <<>>
    /\ response_text = <<>>
    /\ model_state = "not_called"
    /\ executed = <<>>
    /\ tool_result = NoResult
    /\ calls = <<>>
    /\ posts = <<>>
    /\ reply = <<>>
    /\ raised = FALSE
    /\ env = NoEnv
    /\ conv = NoConversation

\* send_payment without to_address and without amount_usd
Argless(parameters) ==
    "to_address" \notin DOMAIN parameters /\ "amount_usd" \notin DOMAIN parameters

\* paid after the execute_tool calls `done`, the last of which returned outcome
PaidAfter(was_paid, done, outcome) ==
    IF done = <<>> THEN was_paid
    ELSE IF done[Len(done)].tool_name = <<"purchase_tickets">> THEN FALSE
    ELSE IF /\ done[Len(done)].tool_name = <<"send_payment">>
            /\ Argless(done[Len(done)].parameters)
            /\ ~outcome.raised
            /\ Truthy(outcome.value, "success")
            /\ "message" \in DOMAIN outcome.value
    THEN TRUE
    ELSE was_paid

\* the latest reservations after conversation c's execute_tool call that sent
\* `sent` and met the responses mcp
ReservedAfter(res, c, sent, mcp) ==
    IF /\ c \in Conversations
       /\ sent # <<>>
       /\ sent[Len(sent)].tool = "purchase_tickets"
       /\ mcp.main.kind = "http"
       /\ mcp.main.status = 402
       /\ "paymentIntent" \in DOMAIN mcp.main.body
    THEN [res EXCEPT ![c] = mcp.main.body["paymentIntent"]]
    ELSE res

\* the overwritten reservation after conversation c's execute_tool call: a
\* reservation that replaces another one in the slot drops it, and an intent
\* that is reserved again is no longer the dropped one
DroppedAfter(was, slot, c, sent, mcp) ==
    IF /\ c \in Conversations
       /\ sent # <<>>
       /\ sent[Len(sent)].tool = "purchase_tickets"
       /\ mcp.main.kind = "http"
       /\ mcp.main.status = 402
       /\ "paymentIntent" \in DOMAIN mcp.main.body
    THEN IF slot # NoPending /\ slot # mcp.main.body["paymentIntent"] THEN slot
         ELSE IF was = mcp.main.body["paymentIntent"] THEN NoPending
         ELSE was
    ELSE was

\* failed after conversation c's execute_tool call of tool_name that sent
\* `sent` and met the responses mcp
FailedAfter(was, c, tool_name, sent, mcp) ==
    IF c \notin Conversations THEN was
    ELSE IF tool_name = <<"purchase_tickets">> THEN FALSE
    ELSE IF /\ tool_name = <<"send_payment">>
            /\ sent # <<>>
            /\ sent[Len(sent)].tool = "send_payment"
            /\ mcp.main.kind = "http"
            /\ mcp.main.status < 500
    THEN ~Truthy(mcp.main.body, "success")
    ELSE was

Init ==
    /\ Idle
    /\ failed = FALSE
    /\ dropped = NoPending
    /\ reserved = [c \in Conversations |-> NoPending]
    /\ pending = NoPending
    /\ paid = FALSE
    /\ created = 0
    /\ client \in {c \in [Agents -> {GenaiClient, BigQueryClient, NoClient}] :
                      \A a \in Agents : c[a] \in ClientsAfterInit(a)}

\* POST /chat on an agent that inherits process_request
ChatRequest(a) ==
    /\ phase = "idle"
    /\ \E model \in ModelOutcomes(a) :
          \E e \in Envs(a, ParseToolCall(model.text).tool_name, pending) :
             \E r \in {ProcessRequest(a, client[a], model, e)} :
                 /\ phase' = "chat"
                 /\ agent' = a
                 /\ client' = [client EXCEPT ![a] = r.client]
                 /\ user_message' = <<"hello">>
                 /\ response_text' = r.response_text
                 /\ model_state' = r.model_state
                 /\ executed' = r.executed
                 /\ tool_result' = r.tool_result
                 /\ calls' = r.calls
                 /\ posts' = r.posts
                 /\ reply' = r.reply
                 /\ raised' = r.raised
                 /\ env' = e
                 /\ pending' = IF a = "ticket" THEN PendingAfter(pending, r.calls, e.mcp)
                                ELSE pending
                 /\ paid' = IF a = "ticket" THEN PaidAfter(paid, r.executed, r.tool_result)
                             ELSE paid
                 /\ UNCHANGED <<created, conv, reserved, dropped, failed>>

\* POST /chat on the Orchestrator
OrchestratorChatRequest ==
    /\ phase = "idle"
    /\ \E message \in Messages, http \in RouteOutcomes :
          \E r \in {OrchestratorProcessRequest(message, http)} :
              /\ phase' = "chat"
              /\ agent' = "orchestrator"
              /\ user_message' = message
              /\ posts' = r.posts
              /\ reply' = r.reply
              /\ env' = Env("", TRUE, "ok", NoMcp, http)
              /\ UNCHANGED <<client, response_text, model_state, executed,
                             tool_result, calls, raised, pending, paid, created,
                             conv, reserved, dropped, failed>>

\* agent.execute_tool(tool_name, parameters), as POST /execute-tool calls it
ToolRequestBy(c, a, names) ==
    /\ phase = "idle"
    /\ \E tool_name \in names, parameters \in ToolParameters(a) :
          \E e \in Envs(a, tool_name, pending) :
             \E r \in {ExecuteTool(a, tool_name, parameters, client[a], e)} :
                 /\ (a = "ticket" /\ tool_name = <<"create_ticket">>)
                        => created < MaxCreated
                 /\ phase' = "tool"
                 /\ agent' = a
                 /\ client' = [client EXCEPT ![a] = r.client]
                 /\ executed' = <<[tool_name |-> tool_name, parameters |-> parameters]>>
                 /\ tool_result' = r.outcome
                 /\ calls' = r.calls
                 /\ posts' = r.posts
                 /\ raised' = r.outcome.raised
                 /\ env' = e
                 /\ pending' = IF a = "ticket" THEN PendingAfter(pending, r.calls, e.mcp)
                                ELSE pending
                 /\ paid' = IF a = "ticket"
                             THEN PaidAfter(paid, <<[tool_name |-> tool_name,
                                                     parameters |-> parameters]>>,
                                            r.outcome)
                             ELSE paid
                 /\ created' = IF a = "ticket" /\ tool_name = <<"create_ticket">>
                                THEN created + 1 ELSE created
                 /\ conv' = c
                 /\ reserved' = IF a = "ticket"
                                 THEN ReservedAfter(reserved, c, r.calls, e.mcp)
                                 ELSE reserved
                 /\ dropped' = IF a = "ticket"
                                THEN DroppedAfter(dropped, pending, c, r.calls, e.mcp)
                                ELSE dropped
                 /\ failed' = IF a = "ticket"
                               THEN FailedAfter(failed, c, tool_name, r.calls, e.mcp)
                               ELSE failed
                 /\ UNCHANGED <<user_message, response_text, model_state, reply>>

\* POST /execute-tool from a caller that is not followed
ToolRequest(a) == ToolRequestBy(NoConversation, a, ToolNames(a))

\* POST /execute-tool from conversation c in the ticket and payment flow
FlowRequest(c) == ToolRequestBy(c, "ticket", FlowTools)

\* the formatting tail of BaseAgent.process_request on a tool result
FormatStep ==
    /\ phase = "tool"
    /\ agent \in BaseAgents
    /\ ~raised
    /\ phase' = "formatted"
    /\ reply' = FormatResult(tool_result.value)
    /\ UNCHANGED <<agent, client, user_message, response_text, model_state,
                   executed, tool_result, calls, posts, raised, env, pending, paid, created,
                   conv, reserved, dropped, failed>>

\* the handler's response is sent; the next request starts afresh
Respond ==
    /\ phase # "idle"
    /\ phase' = "idle"
    /\ agent' = "orchestrator"
    /\ user_message' = <<>>
    /\ response_text' = <<>>
    /\ model_state' = "not_called"
    /\ executed' = <<>>
    /\ tool_result' = NoResult
    /\ calls' = <<>>
    /\ posts' = <<>>
    /\ reply' = <<>>
    /\ raised' = FALSE
    /\ env' = NoEnv
    /\ conv' = NoConversation
    /\ UNCHANGED <<client, pending, paid, created, reserved, dropped, failed>>

Next ==
    \/ \E a \in BaseAgents : ChatRequest(a)
    \/ OrchestratorChatRequest
    \/ \E a \in Agents : ToolRequest(a)
    \/ Respond

Spec == Init /\ [][Next]_vars

ToolNext ==
    \/ \E a \in Agents : ToolRequest(a)
    \/ FormatStep
    \/ Respond

ToolSpec == Init /\ [][ToolNext]_vars

\* conversations that each purchase and pay through the one ticket agent
FlowNext ==
    \/ \E c \in Conversations : FlowRequest(c)
    \/ Respond

FlowSpec == Init /\ [][FlowNext]_vars

\* ========================================================================
\* Properties
\* ========================================================================
\* a chat request that BaseAgent.process_request answered from a model text
Answered == phase = "chat" /\ agent \in BaseAgents /\ model_state = "returned"

\* the lines of the model text
TextLines == SplitLines(response_text)
UseToolLines == {i \in 1..Len(TextLines) : StartsWith(TextLines[i], USE_TOOL)}
ParametersLines == {i \in 1..Len(TextLines) : StartsWith(TextLines[i], PARAMETERS)}

\* the line is USE_TOOL: followed by one tool name, blanks aside
NamesTool(line, name) ==
    /\ ~IsSpace(name) /\ name \notin {USE_TOOL, PARAMETERS}
    /\ SelectSeq(line, LAMBDA t : ~IsSpace(t)) = <<USE_TOOL, name>>

NamedTools ==
    UNION {{TextLines[i][k] : k \in 1..Len(TextLines[i])} : i \in UseToolLines}

\* what the JSON texts of the inputs denote, written out by hand;
\* Broken marks the text that is not JSON
Broken == [broken |-> "json"]
Meaning(a, line) ==
    LET j == SelectSeq(Tail(line), LAMBDA t : ~IsSpace(t))
        k == j[2]
    IN  IF j = <<"{", "}">> THEN <<>>
        ELSE IF Len(j) = 5 THEN (k :> "v1")
        ELSE IF Len(j) = 9 THEN (k :> "v2") @@ ("center" :> "c1")
        ELSE Broken

Call(name, parameters) == [tool_name |-> <<name>>, parameters |-> parameters]

\* C1: a model text without the marker USE_TOOL: runs no tool, sends
\* nothing to a companion or a downstream agent, and is returned unchanged.
C1_NoMarkerNoTool ==
    (Answered /\ ~Contains(response_text, USE_TOOL))
        => /\ executed = <<>>
           /\ calls = <<>>
           /\ posts = <<>>
           /\ reply = response_text

\* a text with a PARAMETERS: line and surrounding blanks, but no marker
C1_Witness ==
    /\ Answered
    /\ ~Contains(response_text, USE_TOOL)
    /\ Contains(response_text, PARAMETERS)
    /\ IsSpace(response_text[Len(response_text)])
    /\ reply = response_text

\* C2: a text with one line that begins with USE_TOOL: and names a tool and
\* one line that begins with PARAMETERS: and holds a JSON object makes
\* exactly one executor call, with that name and that mapping.
C2_WellFormedPairExecuted ==
    Answered =>
        \A i \in UseToolLines, j \in ParametersLines :
            \A name \in NamedTools :
                (/\ UseToolLines = {i}
                 /\ ParametersLines = {j}
                 /\ NamesTool(TextLines[i], name)
                 /\ Meaning(agent, TextLines[j]) # Broken)
                    => executed = <<Call(name, Meaning(agent, TextLines[j]))>>

\* a text whose pair carries two parameters
C2_Witness ==
    /\ Answered
    /\ Cardinality(UseToolLines) = 1
    /\ Cardinality(ParametersLines) = 1
    /\ Len(executed) = 1
    /\ Cardinality(DOMAIN executed[1].parameters) = 2
    /\ executed[1].tool_name = <<ModelTools(agent)[1]>>

\* C3: with one USE_TOOL: line that names a tool and one PARAMETERS: line
\* that is not valid JSON, the named tool is executed with the empty mapping
\* and no exception is reported.
C3_InvalidJsonEmptyParameters ==
    Answered =>
        \A i \in UseToolLines, j \in ParametersLines :
            \A name \in NamedTools :
                (/\ UseToolLines = {i}
                 /\ ParametersLines = {j}
                 /\ NamesTool(TextLines[i], name)
                 /\ Meaning(agent, TextLines[j]) = Broken)
                    => /\ executed = <<Call(name, <<>>)>>
                       /\ ~raised
                       /\ Head(reply) # "Error processing request: "

C3_Witness ==
    /\ Answered
    /\ \E i \in UseToolLines, j \in ParametersLines :
          /\ UseToolLines = {i}
          /\ ParametersLines = {j}
          /\ Meaning(agent, TextLines[j]) = Broken
          /\ executed = <<Call(ModelTools(agent)[1], <<>>)>>

\* first element of a non-empty set of line numbers
First(S) == CHOOSE i \in S : \A j \in S : i <= j

\* C4: when a marker occurs on several lines, the tool of the first
\* USE_TOOL: line is executed with the parameters of the first PARAMETERS:
\* line (the empty mapping when that line is not JSON or there is none).
C4_FirstOccurrenceHonored ==
    (/\ Answered
     /\ UseToolLines # {}
     /\ Cardinality(UseToolLines) > 1 \/ Cardinality(ParametersLines) > 1)
        => \A name \in NamedTools :
              NamesTool(TextLines[First(UseToolLines)], name)
                => executed =
                     <<Call(name,
                            IF ParametersLines = {} THEN <<>>
                            ELSE LET m == Meaning(agent, TextLines[First(ParametersLines)])
                                 IN  IF m = Broken THEN <<>> ELSE m)>>

\* the dict that the last execute_tool call returned
ToolValue == tool_result.value

\* C5: execute_tool with a name outside the agent's dispatch returns an
\* unsuccessful result whose error is "Unknown tool: <name>".
C5_UnknownToolReported ==
    (phase = "tool" /\ ~IsToolOf(agent, executed[1].tool_name))
        => /\ ~tool_result.raised
           /\ ~Truthy(ToolValue, "success")
           /\ "error" \in DOMAIN ToolValue
           /\ ToolValue["error"] = <<"Unknown tool: ">> \o executed[1].tool_name

\* C6: execute_tool returns a result and never raises, whatever the tool
\* name, the parameters and the behaviour of the remote services.
C6_ExecuteToolNeverRaises ==
    executed # <<>> => (~tool_result.raised /\ (phase = "tool" => ~raised))

\* the name lookup met an event without a name: the KeyError became a result
C6_Witness ==
    /\ phase = "tool"
    /\ agent = "ticket"
    /\ executed[1].tool_name = <<"purchase_tickets">>
    /\ ~tool_result.raised
    /\ "error" \in DOMAIN ToolValue
    /\ ToolValue["error"] = <<"'", "name", "'">>

ErrorProcessing(msg) == <<"Error processing request: ">> \o msg

\* C7: process_request never raises; when the model call, the parsing or
\* the missing model client raises, the reply is "Error processing
\* request: <message>".
C7_ProcessRequestNeverRaises ==
    phase = "chat" =>
        /\ ~raised
        /\ reply # <<>>
        /\ (agent \in BaseAgents /\ model_state = "raised")
              => reply = ErrorProcessing(ModelDown.exc)
        /\ (agent \in BaseAgents /\ model_state = "returned_none")
              => reply = ErrorProcessing(<<"argument of type 'NoneType' is not iterable">>)
        /\ (agent \in BaseAgents /\ model_state = "not_called")
              => reply = ErrorProcessing(<<"'", client[agent],
                                           "' object has no attribute 'models'">>)

C7_Witness ==
    /\ phase = "chat"
    /\ agent = "maps"
    /\ model_state = "raised"
    /\ reply = <<"Error processing request: ", "503 UNAVAILABLE">>

\* the call ended without a fault: no exception, no error, no refusal
FaultFree ==
    /\ ~tool_result.raised
    /\ "error" \notin DOMAIN ToolValue
    /\ "success" \in DOMAIN ToolValue => ToolValue["success"]

CardCount(text) == Cardinality({i \in 1..Len(text) : text[i] = "[ticket] **"})

\* a chat request whose tool returned a successful events list
EventsRendered ==
    /\ phase = "chat"
    /\ agent \in BaseAgents
    /\ executed # <<>>
    /\ ~tool_result.raised
    /\ Truthy(ToolValue, "success")
    /\ "result" \notin DOMAIN ToolValue
    /\ "events" \in DOMAIN ToolValue

\* C9: an events list of n entries is rendered as min(n, 10) cards, the
\* cards of its first entries in list order.
C9_AtMostTenCards ==
    EventsRendered =>
        LET events == ToolValue["events"]
            m == IF Len(events) < 10 THEN Len(events) ELSE 10
        IN  /\ CardCount(reply) = m
            /\ reply = EventsHeader \o JoinCards([i \in 1..m |-> EventCard(events[i])])

\* fifteen events, ten cards
C9_Witness ==
    /\ EventsRendered
    /\ Len(ToolValue["events"]) = 15
    /\ CardCount(reply) = 10

\* the words of the inputs that hold a keyword of each category, by hand:
\* "Showcase" holds "show", "Database" holds "data", "address" is a ticket
\* keyword and a maps keyword
TicketWords == {"Buy", "address", "Showcase"}
DataWords == {"DATA", "Database", "sql"}
HasWord(S) == \E i \in 1..Len(user_message) : user_message[i] \in S
PostedTo(key) == \E i \in 1..Len(posts) : posts[i][1] = key

\* C10: a message with a ticket keyword is forwarded to the ticket agent
\* only; one with a data keyword and no ticket keyword to the BigQuery
\* agent only; the maps agent is used only when neither kind occurs.
C10_TicketPrecedence ==
    (phase = "chat" /\ agent = "orchestrator") =>
        /\ HasWord(TicketWords) => posts = << <<"ticket", user_message>> >>
        /\ (HasWord(DataWords) /\ ~HasWord(TicketWords))
              => posts = << <<"bigquery", user_message>> >>
        /\ PostedTo("maps") => (~HasWord(TicketWords) /\ ~HasWord(DataWords))

\* a data keyword comes first, a ticket keyword second
C10_Witness ==
    /\ phase = "chat"
    /\ agent = "orchestrator"
    /\ user_message = <<"DATA", SP, "Buy">>
    /\ posts = << <<"ticket", user_message>> >>

\* the words of the inputs that hold a maps keyword, by hand
MapsWords == {"Map", "address"}
NoKeyword == ~HasWord(TicketWords) /\ ~HasWord(DataWords) /\ ~HasWord(MapsWords)

\* the downstream agents of self.remote_agents, by hand, in their order
ConfiguredAgents == <<"BigQuery Agent", "Ticket Agent", "Maps Agent">>

\* the names that the bullets of a listing carry, in the order of the text
ListedNames(text) ==
    LET ix == SelectSeq([i \in 1..Len(text) |-> i],
                        LAMBDA i : i < Len(text) /\ text[i] = "* ")
    IN  [k \in 1..Len(ix) |-> text[ix[k] + 1]]

\* C11: a message without any keyword is forwarded to nobody and answered
\* with the capability listing, which announces 3 agents and lists exactly
\* the configured downstream agents; the list_available_agents tool reports
\* the same agents with success = TRUE.
C11_CapabilityListing ==
    /\ (phase = "chat" /\ agent = "orchestrator" /\ NoKeyword) =>
          /\ posts = <<>>
          /\ reply[1] = "I can help you with "
          /\ reply[2] = ToString(Len(ConfiguredAgents))
          /\ ListedNames(reply) = ConfiguredAgents
    /\ (/\ phase = "tool"
        /\ agent = "orchestrator"
        /\ executed[1].tool_name = <<"list_available_agents">>) =>
          /\ ~tool_result.raised
          /\ ToolValue["success"] = TRUE
          /\ [i \in 1..Len(ToolValue["agents"]) |-> ToolValue["agents"][i].name[1]]
                = ConfiguredAgents

\* a greeting is answered with the listing and nothing is forwarded
C11_Witness ==
    /\ phase = "chat"
    /\ agent = "orchestrator"
    /\ user_message = <<"hello", SP, "hello">>
    /\ posts = <<>>
    /\ Len(ListedNames(reply)) = 3

\* the Orchestrator forwarded the chat message and the forwarding failed
ForwardingFailed ==
    phase = "chat" /\ agent = "orchestrator" /\ posts # <<>> /\ env.http.kind # "ok"

\* C12: when forwarding to the selected downstream agent fails (connection
\* refused, timeout, non-2xx status, unreadable body), the reply is
\* "Error: <reason>", the reason naming the failure, and no exception leaves
\* the handler.
C12_ForwardingFailureReported ==
    ForwardingFailed =>
        /\ ~raised
        /\ Len(reply) > 1
        /\ reply[1] = "Error: "
        /\ env.http.kind = "refused" => reply[2] = "Cannot connect to "
        /\ env.http.kind = "failed" =>
              /\ reply[2] = "Error routing to "
              /\ SubSeq(reply, Len(reply) - Len(env.http.exc) + 1, Len(reply)) = env.http.exc

\* a ticket message meets a downstream agent that does not answer in time
C12_Witness ==
    /\ ForwardingFailed
    /\ user_message = <<"Buy">>
    /\ env.http = HttpFailed(<<"Read timed out. (read timeout=30)">>)
    /\ reply = <<"Error: ", "Error routing to ", "Ticket Agent", ": ",
                 "Read timed out. (read timeout=30)">>

\* the step is an execute_tool call of send_payment on the Ticket agent
\* without to_address and amount_usd
ArglessPaymentStep ==
    /\ phase = "idle"
    /\ phase' = "tool"
    /\ agent' = "ticket"
    /\ executed'[1].tool_name = <<"send_payment">>
    /\ Argless(executed'[1].parameters)

\* the result carries the "no pending payment" message and is no error
NoPendingReported(outcome) ==
    /\ ~outcome.raised
    /\ "error" \notin DOMAIN outcome.value
    /\ "result" \in DOMAIN outcome.value
    /\ outcome.value["result"][1] = "No Pending Payments Found"

\* a payment was submitted to the companion service
Submitted(sent) == \E i \in 1..Len(sent) : sent[i].tool = "send_payment"

\* C13: once an argument-less send_payment has succeeded, and as long as no
\* purchase_tickets has been executed since, an argument-less send_payment
\* returns the "no pending payment" message and submits no payment.
C13_SecondPaymentNotCharged ==
    [][(paid /\ ArglessPaymentStep)
          => (NoPendingReported(tool_result') /\ ~Submitted(calls'))]_vars

\* the second argument-less send_payment after a paid reservation
C13_Witness ==
    /\ phase = "tool"
    /\ agent = "ticket"
    /\ executed[1].tool_name = <<"send_payment">>
    /\ Argless(executed[1].parameters)
    /\ paid
    /\ pending = NoPending
    /\ NoPendingReported(tool_result)
    /\ calls = <<McpCall("get_pending_payment", <<>>)>>

\* the payments among the requests sent to the companion service
Payments(sent) == SelectSeq(sent, LAMBDA c : c.tool = "send_payment")

\* C14: an argument-less send_payment submits nothing but the payment
\* address and the amount of the reservation in the pending-payment slot,
\* and submits them whenever the companion answers the lookup; with an
\* empty slot it submits nothing and returns the "no pending payment"
\* message as a result that is no error.
C14_AutoFillFromPending ==
    [][ArglessPaymentStep =>
          /\ pending = NoPending =>
                (~Submitted(calls') /\ NoPendingReported(tool_result'))
          /\ pending # NoPending =>
                /\ \A i \in 1..Len(Payments(calls')) :
                      /\ Payments(calls')[i].params.toAddress
                            = pending.blockchain.paymentAddress
                      /\ Payments(calls')[i].params.amountUSD = pending.amount
                /\ env'.mcp.pending.kind = "http" => Len(Payments(calls')) = 1]_vars

\* the reservation pi_2 is paid with its own address and amount
C14_Witness ==
    /\ phase = "tool"
    /\ agent = "ticket"
    /\ executed[1].tool_name = <<"send_payment">>
    /\ executed[1].parameters = <<>>
    /\ calls = <<McpCall("get_pending_payment", <<>>),
                 McpCall("send_payment",
                         [toAddress |-> <<"0xBBB">>,
                          amountUSD |-> <<"1", "2", ".", "5">>,
                          memo |-> ""])>>

\* purchase_tickets obtained from the companion service a reservation that
\* requires payment
ReservationObtained ==
    /\ phase = "tool"
    /\ agent = "ticket"
    /\ executed[1].tool_name = <<"purchase_tickets">>
    /\ calls # <<>>
    /\ calls[Len(calls)].tool = "purchase_tickets"
    /\ env.mcp.main.kind = "http"
    /\ env.mcp.main.status = 402
    /\ Truthy(env.mcp.main.body, "requiresPayment")

\* C15: whenever purchase_tickets obtains a reservation that requires
\* payment, its result is successful and its message contains the payment
\* address, the amount and the id of the returned PaymentIntent.
C15_ReservationMessage ==
    ReservationObtained =>
        LET payment_intent == env.mcp.main.body["paymentIntent"]
        IN  /\ ~tool_result.raised
            /\ Truthy(tool_result.value, "success")
            /\ "result" \in DOMAIN tool_result.value
            /\ IsSubstring(payment_intent.blockchain.paymentAddress,
                           tool_result.value["result"])
            /\ IsSubstring(payment_intent.amount, tool_result.value["result"])
            /\ IsSubstring(payment_intent.id, tool_result.value["result"])

\* a reservation found through the event's name, with a fractional amount
C15_Witness ==
    /\ ReservationObtained
    /\ Len(calls) = 2
    /\ env.mcp.main.body["paymentIntent"].id = <<"pi_2">>
    /\ tool_result.value["paymentIntent"] = env.mcp.main.body["paymentIntent"]
    /\ pending = env.mcp.main.body["paymentIntent"]

\* a tool of the ticket agent resolves an event reference that is a name
\* against a live event list
NameLookup ==
    /\ phase = "tool"
    /\ agent = "ticket"
    /\ executed[1].tool_name \in {<<"purchase_tickets">>, <<"get_event_details">>}
    /\ "event_id" \in DOMAIN executed[1].parameters
    /\ ~IsNumber(<<executed[1].parameters["event_id"]>>)
    /\ ~LooksLikeId(<<executed[1].parameters["event_id"]>>)
    /\ env.mcp.list.kind = "http"
    /\ Truthy(env.mcp.list.body, "success")
    /\ Get(env.mcp.list.body, "events", <<>>) # <<>>
    /\ \A i \in 1..Len(env.mcp.list.body["events"]) :
          {"name", "id"} \subseteq DOMAIN env.mcp.list.body["events"][i]

Candidates == env.mcp.list.body["events"]
Reference == StripChars(Lower(CharsOf(<<executed[1].parameters["event_id"]>>)))
CandidateName(i) == Lower(CharsOf(Candidates[i]["name"]))

\* the candidates whose name contains the reference or is contained in it
SubstringMatches ==
    {i \in 1..Len(Candidates) :
        IsSubstring(Reference, CandidateName(i)) \/ IsSubstring(CandidateName(i), Reference)}

BelowThreshold(i) ==
    Similarity(Reference, CandidateName(i)).num * SimilarityThreshold.den
        < SimilarityThreshold.num * Similarity(Reference, CandidateName(i)).den

\* the lookup found nothing: purchase_tickets refuses without a purchase
\* request, get_event_details asks for the reference as it was given
NotFound ==
    IF executed[1].tool_name = <<"purchase_tickets">>
    THEN /\ calls = <<McpCall("list_events", <<>>)>>
         /\ ~tool_result.raised
         /\ tool_result.value["success"] = FALSE
         /\ Contains(tool_result.value["error"],
                     "' not found. Please use one of: Summer Music Festival 2025, Tech Conference 2025, Rock Legends Concert, or Broadway Musical Night")
    ELSE /\ Len(calls) = 2
         /\ calls[2].params.eventId = <<executed[1].parameters["event_id"]>>

\* C16: when some live event's name contains the reference or is contained
\* in it (case-insensitively), the resolved event is one of those substring
\* matches, whatever the similarity scores are; without a substring match
\* and with every candidate's similarity below the threshold the lookup
\* yields not found, for any number of candidates.
C16_SubstringBeforeSimilarity ==
    NameLookup =>
        /\ SubstringMatches # {} =>
              /\ Len(calls) = 2
              /\ \E i \in SubstringMatches : calls[2].params.eventId = Candidates[i]["id"]
        /\ (SubstringMatches = {} /\ \A i \in 1..Len(Candidates) : BelowThreshold(i))
              => NotFound

\* "Jazz Night" is resolved to the event whose name contains it although
\* another candidate scores above the threshold
C16_Witness ==
    /\ NameLookup
    /\ Len(Candidates) = 3
    /\ SubstringMatches = {2}
    /\ ~BelowThreshold(1)
    /\ Len(calls) = 2
    /\ calls[2].params.eventId = Candidates[2]["id"]

\* no substring match and every score below the threshold
C16_NotFoundReached ==
    /\ NameLookup
    /\ Len(Candidates) >= 2
    /\ SubstringMatches = {}
    /\ \A i \in 1..Len(Candidates) : BelowThreshold(i)
    /\ NotFound

\* the ticket agent has executed the tool `name` of the ticket store
StoreCall(name) ==
    /\ phase = "tool"
    /\ agent = "ticket"
    /\ executed[1].tool_name = <<name>>

\* C17: create_ticket with title, description, category and priority returns
\* success=True together with a ticket_id and a stored ticket that has the
\* given title and status "open".
C17_CreateTicketSucceeds ==
    (/\ StoreCall("create_ticket")
     /\ {"title", "description", "category", "priority"}
            \subseteq DOMAIN executed[1].parameters)
    => /\ ~tool_result.raised
       /\ Truthy(tool_result.value, "success")
       /\ "ticket_id" \in DOMAIN tool_result.value
       /\ "ticket" \in DOMAIN tool_result.value
       /\ tool_result.value["ticket"]["title"] = executed[1].parameters["title"]
       /\ tool_result.value["ticket"]["status"] = "open"

\* C18: after a create_ticket, update_ticket with a ticket id, a status s and
\* a note returns success=True with the ticket's status equal to s and, for
\* a fresh ticket, one note.
C18_UpdateAfterCreate ==
    (/\ StoreCall("update_ticket")
     /\ created > 0
     /\ {"ticket_id", "status", "note"} \subseteq DOMAIN executed[1].parameters)
    => /\ ~tool_result.raised
       /\ Truthy(tool_result.value, "success")
       /\ "ticket" \in DOMAIN tool_result.value
       /\ tool_result.value["ticket"]["status"] = executed[1].parameters["status"]
       /\ Len(tool_result.value["ticket"]["notes"]) = 1

\* C19: after n create_ticket calls on the ticket agent, list_all_tickets
\* returns success=True with a count of at least n.
C19_ListKeepsEveryTicket ==
    (StoreCall("list_all_tickets") /\ created > 0)
    => /\ ~tool_result.raised
       /\ Truthy(tool_result.value, "success")
       /\ "count" \in DOMAIN tool_result.value
       /\ tool_result.value["count"] >= created

\* the routing tool of a downstream agent
RouteTool(agent_key) ==
    CASE agent_key = "bigquery" -> "route_to_bigquery_agent"
      [] agent_key = "ticket" -> "route_to_ticket_agent"
      [] agent_key = "maps" -> "route_to_maps_agent"

DownstreamAgents == {RemoteAgentKeys[i] : i \in 1..Len(RemoteAgentKeys)}

\* the Orchestrator has executed the routing tool of agent_key with a request
ToolRouting(agent_key) ==
    /\ phase = "tool"
    /\ agent = "orchestrator"
    /\ executed[1].tool_name = <<RouteTool(agent_key)>>
    /\ "request" \in DOMAIN executed[1].parameters

\* the Orchestrator has routed a one-word chat message to agent_key by keyword
KeywordRouting(agent_key) ==
    /\ phase = "chat"
    /\ agent = "orchestrator"
    /\ Len(user_message) = 1
    /\ posts # <<>>
    /\ posts[1][1] = agent_key

\* the tool's result and the chat reply tell the same outcome of the
\* forwarding answered by http: the downstream reply on success, the same
\* error text (after "Error: " in the chat reply) on failure
SameOutcome(result, text, http) ==
    IF http.kind = "ok"
    THEN /\ Truthy(result, "success")
         /\ result["response"] = Get(http.body, "response", <<"No response from agent">>)
         /\ text = result["response"]
    ELSE /\ "success" \in DOMAIN result
         /\ result["success"] = FALSE
         /\ text = <<"Error: ">> \o result["error"]

\* C20: for each downstream agent X and request r that the keywords route
\* to X, the route_to_X_agent tool and the keyword routing post the same
\* message to the same agent and tell the same outcome: the downstream
\* reply on success, the same error text on failure.
C20_ToolAndKeywordRoutingAgree ==
    \A X \in DownstreamAgents :
        /\ ToolRouting(X) =>
              \A k \in {OrchestratorProcessRequest(
                            <<executed[1].parameters["request"]>>, env.http)} :
                 k.posts = << <<X, <<executed[1].parameters["request"]>> >> >>
                    => /\ posts = k.posts
                       /\ ~tool_result.raised
                       /\ SameOutcome(tool_result.value, k.reply, env.http)
        /\ KeywordRouting(X) =>
              \A t \in {OrchestratorExecuteTool(<<RouteTool(X)>>,
                                                [request |-> user_message[1]], env.http)} :
                 /\ t.posts = posts
                 /\ ~t.outcome.raised
                 /\ SameOutcome(t.outcome.value, reply, env.http)

\* route_to_maps_agent with the request "Map" while the Maps agent is down
C20_Witness ==
    /\ ToolRouting("maps")
    /\ executed[1].parameters["request"] = "Map"
    /\ env.http = HttpRefused
    /\ posts = << <<"maps", <<"Map">> >> >>
    /\ tool_result.value["error"][1] = "Cannot connect to "
    /\ OrchestratorProcessRequest(<<"Map">>, env.http).posts = posts

\* conversation c asks for an argument-less send_payment
ArglessPaymentBy(c) == ArglessPaymentStep /\ conv' = c

\* C21: the pending-payment slot is shared by the conversations: an
\* argument-less send_payment of any conversation pays the reservation in
\* the slot, which is the latest reservation of some conversation and not
\* necessarily its own, so that two conversations that each purchase and
\* then pay can be interleaved with one paying the other's reservation.
C21_SlotSharedByConversations ==
    [][\A c \in Conversations :
          (/\ ArglessPaymentBy(c)
           /\ pending # NoPending
           /\ env'.mcp.pending.kind = "http")
          => /\ \E d \in Conversations : reserved[d] = pending
             /\ Len(Payments(calls')) = 1
             /\ Payments(calls')[1].params.toAddress = pending.blockchain.paymentAddress
             /\ Payments(calls')[1].params.amountUSD = pending.amount]_vars

\* A and B have each reserved; A's argument-less payment is submitted with
\* the address and amount of B's reservation
C21_Witness ==
    /\ phase = "tool"
    /\ conv = "A"
    /\ executed[1].tool_name = <<"send_payment">>
    /\ executed[1].parameters = <<>>
    /\ reserved["A"] # NoPending
    /\ reserved["B"] # NoPending
    /\ reserved["A"].blockchain.paymentAddress # reserved["B"].blockchain.paymentAddress
    /\ reserved["A"].amount # reserved["B"].amount
    /\ Len(calls) = 2
    /\ calls[2].tool = "send_payment"
    /\ calls[2].params.toAddress = reserved["B"].blockchain.paymentAddress
    /\ calls[2].params.amountUSD = reserved["B"].amount

\* a payment carries the payment address and the amount of the reservation
Pays(payment, intent) ==
    /\ payment.params.toAddress = intent.blockchain.paymentAddress
    /\ payment.params.amountUSD = intent.amount

\* purchase_tickets obtains a reservation while another one is pending
SecondReservationStep ==
    /\ phase = "idle"
    /\ phase' = "tool"
    /\ agent' = "ticket"
    /\ conv' \in Conversations
    /\ executed'[1].tool_name = <<"purchase_tickets">>
    /\ pending # NoPending
    /\ calls' # <<>>
    /\ calls'[Len(calls')].tool = "purchase_tickets"
    /\ env'.mcp.main.kind = "http"
    /\ env'.mcp.main.status = 402
    /\ env'.mcp.main.body["paymentIntent"] # pending

\* C22: a second reservation that arrives while an earlier one is pending
\* replaces it in the slot; every argument-less send_payment that submits a
\* payment pays the reservation in the slot, and none pays a reservation
\* that was dropped from it.
C22_LastReservationWins ==
    [][/\ SecondReservationStep =>
             (pending' = env'.mcp.main.body["paymentIntent"] /\ dropped' = pending)
       /\ (ArglessPaymentStep /\ Submitted(calls')) =>
             /\ pending # NoPending
             /\ \A i \in 1..Len(Payments(calls')) :
                   /\ Pays(Payments(calls')[i], pending)
                   /\ dropped # NoPending => ~Pays(Payments(calls')[i], dropped)]_vars

\* pi_1 was overwritten by pi_2 while pending, and the next argument-less
\* send_payment pays pi_2
C22_Witness ==
    /\ phase = "tool"
    /\ agent = "ticket"
    /\ executed[1].tool_name = <<"send_payment">>
    /\ Argless(executed[1].parameters)
    /\ dropped # NoPending
    /\ dropped.id = <<"pi_1">>
    /\ Len(calls) = 2
    /\ calls[2].tool = "send_payment"
    /\ calls[2].params.toAddress = <<"0xBBB">>
    /\ ~Pays(calls[2], dropped)
    /\ pending = NoPending

PurchaseNotResolved ==
    /\ NameLookup
    /\ executed[1].tool_name = <<"purchase_tickets">>
    /\ calls = <<McpCall("list_events", <<>>)>>
    /\ ~tool_result.raised
    /\ "error" \in DOMAIN tool_result.value

\* C24: the "event not found" result of purchase_tickets lists the names of
\* the events in the live event list that the companion service returned.
C24_NotFoundListsLiveEvents ==
    PurchaseNotResolved =>
        \A i \in 1..Len(Candidates) :
            IsSubstring(Candidates[i]["name"], tool_result.value["error"])

\* name matching resolves the reference to none of the candidates
Unresolved ==
    /\ SubstringMatches = {}
    /\ \A i \in 1..Len(Candidates) : BelowThreshold(i)

\* C25: for purchase_tickets and for get_event_details, a reference that is
\* not in identifier form and that name matching does not resolve is never
\* sent to the companion service as an event id, and the call ends with an
\* "event not found" result.
C25_UnresolvedNameNeverSent ==
    (NameLookup /\ Unresolved) =>
        /\ \A i \in 1..Len(calls) :
              "eventId" \in DOMAIN calls[i].params
                 => calls[i].params.eventId # <<executed[1].parameters["event_id"]>>
        /\ calls = <<McpCall("list_events", <<>>)>>
        /\ ~tool_result.raised
        /\ Get(tool_result.value, "success", TRUE) = FALSE
        /\ "error" \in DOMAIN tool_result.value

\* the quantities that the schema of purchase_tickets allows
AllowedQuantities == {ToString(n) : n \in 1..10}

\* C26: every purchase request that the ticket agent sends to the companion
\* service carries a quantity between 1 and 10; it is 1 when the caller
\* omitted the quantity.
C26_QuantityInRange ==
    \A i \in 1..Len(calls) :
        calls[i].tool = "purchase_tickets" =>
            /\ calls[i].params.quantity \in AllowedQuantities
            /\ "quantity" \notin DOMAIN executed[Len(executed)].parameters
                  => calls[i].params.quantity = "1"

\* C27: when the language-model service is unreachable during a chat
\* request, the caller of the chat endpoint gets an error status and not a
\* successful chat response with success=true.
C27_ModelOutageSurfaces ==
    (phase = "chat" /\ agent \in BaseAgents /\ model_state = "raised")
    => /\ ChatResponse(reply, raised).status >= 500
       /\ ~ChatResponse(reply, raised).success

\* C28: a chat request to the BigQuery agent calls the language model
\* through the model client, and with BigQuery available the reply is not
\* "Error processing request: ...".
C28_BigQueryChatUsesModelClient ==
    (/\ phase = "chat"
     /\ agent = "bigquery"
     /\ client["bigquery"] = BigQueryClient
     /\ env.init_ok
     /\ env.remote = "ok")
    => /\ model_state # "not_called"
       /\ reply = <<>> \/ reply[1] # "Error processing request: "

\* the ticket agent has executed send_payment
PaymentCall ==
    /\ phase = "tool"
    /\ agent = "ticket"
    /\ executed[1].tool_name = <<"send_payment">>

\* C29: a to_address or amount_usd that the caller supplies to send_payment
\* is the value submitted to the companion service, also when only one of
\* the two is supplied.
C29_SuppliedValueSubmitted ==
    PaymentCall =>
        \A i \in 1..Len(Payments(calls)) :
            /\ "to_address" \in DOMAIN executed[1].parameters
                  => Payments(calls)[i].params.toAddress
                        = <<executed[1].parameters["to_address"]>>
            /\ "amount_usd" \in DOMAIN executed[1].parameters
                  => Payments(calls)[i].params.amountUSD
                        = <<executed[1].parameters["amount_usd"]>>

\* C30: when send_payment succeeds, its success message shows the amount
\* and the address that were submitted to the companion service, also when
\* they were filled in from the pending payment.
C30_MessageShowsSubmittedPayment ==
    (/\ PaymentCall
     /\ Submitted(calls)
     /\ ~tool_result.raised
     /\ Truthy(tool_result.value, "success")
     /\ "message" \in DOMAIN tool_result.value)
    => \A i \in 1..Len(Payments(calls)) :
          /\ IsSubstring(Payments(calls)[i].params.amountUSD, tool_result.value["message"])
          /\ IsSubstring(Payments(calls)[i].params.toAddress, tool_result.value["message"])

====
